---------------------------- MODULE Spec2Model ----------------------------
(***************************************************************************)
(* A model of audioipc: the PlatformHandle wrapper and the handle-carrying *)
(* messages (audioipc/src/lib.rs, audioipc/src/messages.rs), the server's  *)
(* connection handoff (server/src/lib.rs) and the client stream with its   *)
(* callback server (client/src/stream.rs).                                 *)
(*                                                                         *)
(* Option<T> is modelled as a sequence: <<>> is None and <<x>> is Some(x). *)
(***************************************************************************)
EXTENDS Integers, Sequences, FiniteSets, TLC

\* ------------------------------------------------------------------ bounds
\* Descriptor numbers of one process are 0 .. MaxFd-1.
MaxFd == 3
\* Live standalone PlatformHandle wrappers in the operation sequences.
MaxHeld == 2
\* Kernel objects (sockets, shared memory files) are 1 .. MaxRes.
MaxRes == 2
\* Concurrent callers of audioipc_server_new_client.
MaxClients == 2
\* Caller threads, each with a stream of its own, sharing one context.
MaxThreads == 2
\* Requests written on the control connection in one behaviour.
MaxCalls == 3
\* Callback requests the server sends to one stream in one behaviour.
MaxEvents == 3
\* Bytes at the start of the shared region and of the input Vec whose contents
\* are followed.
MaxBytes == 2
\* Milliseconds the clock runs for.
MaxTime == 12
MaxStreams == 2
\* position() calls made on the stream in one behaviour.
MaxPosCalls == 4

\* --------------------------------------------------------------- constants
\* INVALID_HANDLE_VALUE, -1isize as PlatformHandleType.
INVALID_HANDLE_VALUE == -1
\* The cache lifetime of position(), Duration::from_millis(10).
CacheLifetimeMs == 10

None == <<>>
Some(x) == <<x>>
IsSome(o) == o # <<>>
Unwrap(o) == o[1]

Procs == {"A", "B"}
NoRes == 0
FdSet == 0 .. (MaxFd - 1)
ResSet == 1 .. MaxRes
\* Raw values a caller can pass: the descriptors, the invalid sentinel and
\* another negative number.
RawSet == (-2) .. (MaxFd - 1)

VARIABLES
    unix,       \* cfg!(unix): the build; FALSE is the cfg!(windows) build
    fds,        \* fds[p][h]: the kernel object descriptor h of process p refers to, NoRes when closed
    nclose,     \* nclose[p][h]: close calls on h since it was last opened (capped at 2)
    held,       \* the live standalone PlatformHandle wrappers of process A (their raw values)
    loose,      \* raw descriptors of A owned by plain code (released with into_raw)
    last,       \* the last PlatformHandle operation and its outcome
    cmsg,       \* the message a codec step works on, None after a panic or a send
    cstage,     \* where cmsg came from: "built" by a sender, "decoded" from a frame, "none"
    cop,        \* the last codec step and its outcome
    akeep,      \* A's own instance of the kernel object it shares: Some([fd, obj])
    amsg,       \* the message A has built and not yet sent
    wire,       \* the frame in flight from A to B, with the kernel object passed beside it
    bmsg,       \* the message B has decoded and still holds
    xfer,       \* B's last receipt: the object passed with it, the descriptor B released since
    ncPc,       \* ncPc[c]: where the thread calling audioipc_server_new_client for c is
    pairRes,    \* pairRes[c]: what anonymous_ipc_pair returned: "none", "ok", "err"
    coreQ,      \* the closures spawned on the core thread and not yet run to the end
    closure,    \* closure[c]: how far c's closure has run
    sock2,      \* sock2[c]: the peer endpoint: "none", "open", "registered", "bound", "closed"
    waitTx,     \* waitTx[c]: the oneshot sender: "none", "pending", "sent", "dropped"
    ret,        \* ret[c]: the value returned to the caller, None before the return
    req,        \* req[c]: the first request the caller's side sends on the returned endpoint
    tpc,        \* tpc[t]: caller thread t is "idle" or "waiting" inside a facade operation
    treq,       \* treq[t]: the request of t's call in progress
    tgot,       \* tgot[t]: the response t's last call returned with, and the request it had sent
    ctlReq,     \* the control connection, client to server: requests written and not yet read
    ctlResp,    \* the control connection, server to client: responses written and not yet read
    nSent,      \* requests written on the control connection so far
    nRecv,      \* responses read from the control connection so far
    overlap,    \* a call was begun while another call was in progress
    spc,        \* where the thread that owns the ClientStream is: "live", in Drop, or "dropped"
    cbConn,     \* the stream's callback connection: "open", or "closed" by the remote server
    cbIn,       \* callback requests written by the server and not yet read by the client
    cbOut,      \* callback responses the client has written, in the order written
    inFlight,   \* the driver's futures, one per request process() was called for, in arrival order
    task,       \* task[id]: the worker-pool closure of the id-th request received
    nEvents,    \* callback requests the server has written so far
    nArrived,   \* callback requests process() was called for so far
    srvAlive,   \* the CallbackServer, and with it _shutdown_tx, has not been dropped
    drvRun,     \* the driver still reads requests
    shm,        \* CallbackServer.shm is Some
    ooo,        \* a later request's closure finished before an earlier one's
    srvWait,    \* the callback request the remote server awaits the response of (0: none)
    destroyErr, \* StreamDestroy was answered with an error
    shmOf,      \* the SharedMem request whose region CallbackServer.shm holds (0: shm is None)
    own,        \* the last platform_handle() call or message drop of the sending side
    oraw,       \* the raw descriptors platform_handle() handed to its caller, with their objects
    dreq,       \* the Data event being processed: nframes, input_frame_size, output_frame_size
    dcfg,       \* the stream and the build: hasInput (self.input is Some), overflowChecks
    dpc,        \* how far the Data event has got
    pattern,    \* the bytes the peer wrote at the start of the shared region before the event
    region,     \* the bytes at the start of the shared region now
    inbuf,      \* the bytes at the start of the CallbackServer's input Vec
    dcall,      \* the arguments the user's data callback was invoked with
    dresp,      \* the response the closure resolved to
    cached_position, \* ClientStream.cached_position, None or <<position, time cached>>
    now, \* the monotonic clock, in milliseconds
    rate, \* ClientStream.stream_output_rate
    ppc, \* where the thread inside position() is
    pret, \* what the last position() call returned, and by which path
    prevRet,\* the value the call before it returned, since the round trip that filled the cache
    cached_calls, \* ClientStream.cached_calls: (calls answered from the cache, calls)
    pcall,      \* the position() calls made: how many, how many hit the cache, and the latest
    praw, \* the cubeb_stream_params handed to StreamParams::from
    pmem, \* the bytes behind StreamParamsRef::as_ptr()
    pout,\* the StreamParams the conversion returned (None before)
    ipc, \* per stream being initialised: the position of the thread inside ClientStream::init
    icl, \* per stream: the closure init spawned on the reactor
    isig, \* per stream: the wait_tx / wait_rx channel
    ilog,\* per stream: the steps of the initialisation, in the order they happened
    dcb, \* the callback stored in device_change_cb (0: None)
    dlock, \* the holder of the device_change_cb mutex (0: free)
    dreg, \* the caller thread inside register_device_changed_callback, and the callback it registers
    dtask,\* per pool thread: its DeviceChange closure, and the callback it is invoking
    gflag, \* the thread-local in-callback flag of the thread
    gpc, \* what the thread is doing: idle, inside a user callback, panicked, or done with the stream
    gsent \* the control requests the thread has sent, each with the flag at the time

kernelVars == <<fds, nclose>>
opVars == <<held, loose, last>>
codecVars == <<cmsg, cstage, cop>>
msgVars == <<akeep, amsg, wire, bmsg, xfer>>

serverVars == <<ncPc, pairRes, coreQ, closure, sock2, waitTx, ret, req>>
controlVars == <<tpc, treq, tgot, ctlReq, ctlResp, nSent, nRecv, overlap>>
streamVars == <<spc, cbConn, cbIn, cbOut, inFlight, task, nEvents, nArrived, srvAlive, drvRun,
                shm, ooo, srvWait, destroyErr, shmOf>>
ownVars == <<own, oraw>>
dataVars == <<dreq, dcfg, dpc, pattern, region, inbuf, dcall, dresp>>

posVars == <<cached_position, now, rate, ppc, pret, prevRet, cached_calls, pcall>>

paramVars == <<praw, pmem, pout>>

setupVars == <<ipc, icl, isig, ilog>>

devVars == <<dcb, dlock, dtask, dreg>>

guardVars == <<gflag, gpc, gsent>>

vars == <<unix, kernelVars, opVars, codecVars, msgVars, serverVars, controlVars, streamVars,
          ownVars, dataVars, posVars, paramVars, setupVars, devVars, guardVars>>

\* What the actions of one part of the model leave alone.
restOfOps == <<unix, codecVars, msgVars, serverVars, controlVars, streamVars, ownVars, dataVars, posVars, paramVars, setupVars, devVars, guardVars>>
restOfCodec == <<unix, kernelVars, opVars, msgVars, serverVars, controlVars, streamVars, ownVars, dataVars, posVars, paramVars, setupVars, devVars, guardVars>>
restOfMsg == <<unix, opVars, codecVars, serverVars, controlVars, streamVars, ownVars, dataVars, posVars, paramVars, setupVars, devVars, guardVars>>
restOfServer == <<unix, kernelVars, opVars, codecVars, msgVars, controlVars, streamVars, ownVars, dataVars, posVars, paramVars, setupVars, devVars, guardVars>>
restOfControl == <<unix, kernelVars, opVars, codecVars, msgVars, serverVars, streamVars, ownVars, dataVars, posVars, paramVars, setupVars, devVars, guardVars>>
restOfOwn == <<unix, opVars, codecVars, serverVars, controlVars, streamVars, dataVars, posVars, paramVars, setupVars, devVars, guardVars>>
restOfData == <<unix, kernelVars, opVars, codecVars, msgVars, serverVars, controlVars, streamVars,
                ownVars, posVars, paramVars, setupVars, devVars, guardVars>>
restOfPos == <<unix, kernelVars, opVars, codecVars, msgVars, serverVars, controlVars, streamVars, ownVars, dataVars, paramVars, setupVars, devVars, guardVars>>
restOfParams == <<unix, kernelVars, opVars, codecVars, msgVars, serverVars, controlVars, streamVars, ownVars, dataVars, posVars, setupVars, devVars, guardVars>>
restOfSetup == <<unix, kernelVars, opVars, codecVars, msgVars, serverVars, controlVars, streamVars, ownVars, dataVars, posVars, paramVars, devVars, guardVars>>
restOfDev == <<unix, kernelVars, opVars, codecVars, msgVars, serverVars, controlVars, streamVars, ownVars, dataVars, posVars, paramVars, setupVars, guardVars>>
restOfGuard == <<unix, kernelVars, opVars, codecVars, msgVars, serverVars, controlVars, streamVars, ownVars, dataVars, posVars, paramVars, setupVars, devVars>>
restOfStream == <<unix, kernelVars, opVars, codecVars, msgVars, serverVars, controlVars, ownVars, dataVars, posVars, paramVars, setupVars, devVars, guardVars>>

\* ------------------------------------------------------- the initial state
\* Every part of the model starts from the same state; the specifications differ
\* in the build they run and in the operations they take.
Clients == 1 .. MaxClients
Threads == 1 .. MaxThreads
TaskIds == 1 .. MaxEvents
NoTask == [kind |-> "none", st |-> "none", user |-> FALSE, ret |-> 0, view |-> 0]

NoOp == [op |-> "none", raw |-> INVALID_HANDLE_VALUE, res |-> "none", out |-> INVALID_HANDLE_VALUE, made |-> FALSE]

NoCop ==
    [op |-> "none", ty |-> "none", variant |-> "none", stage |-> "none", f |-> None,
     res |-> "none", called |-> FALSE, value |-> INVALID_HANDLE_VALUE, ret |-> None]

NoXfer == [obj |-> NoRes, released |-> None]

InitKernel ==
    /\ fds = [p \in Procs |-> [h \in FdSet |-> NoRes]]
    /\ nclose = [p \in Procs |-> [h \in FdSet |-> 0]]

InitOps ==
    /\ held = <<>>
    /\ loose = {}
    /\ last = NoOp

InitCodecVars ==
    /\ cmsg = None
    /\ cstage = "none"
    /\ cop = NoCop

InitMsgVars ==
    /\ akeep = None
    /\ amsg = None
    /\ wire = None
    /\ bmsg = None
    /\ xfer = NoXfer

InitServerVars ==
    /\ ncPc = [c \in Clients |-> "idle"]
    /\ pairRes = [c \in Clients |-> "none"]
    /\ coreQ = <<>>
    /\ closure = [c \in Clients |-> "none"]
    /\ sock2 = [c \in Clients |-> "none"]
    /\ waitTx = [c \in Clients |-> "none"]
    /\ ret = [c \in Clients |-> None]
    /\ req = [c \in Clients |-> "none"]

InitControlVars ==
    /\ tpc = [t \in Threads |-> "idle"]
    /\ treq = [t \in Threads |-> None]
    /\ tgot = [t \in Threads |-> None]
    /\ ctlReq = <<>>
    /\ ctlResp = <<>>
    /\ nSent = 0
    /\ nRecv = 0
    /\ overlap = FALSE

\* The stream after ClientStream::init: the CallbackServer is bound with
\* shm: None, and the shutdown channel's sender is inside it.
InitStreamVars ==
    /\ spc = "live"
    /\ cbConn = "open"
    /\ cbIn = <<>>
    /\ cbOut = <<>>
    /\ inFlight = <<>>
    /\ task = [id \in TaskIds |-> NoTask]
    /\ nEvents = 0
    /\ nArrived = 0
    /\ srvAlive = TRUE
    /\ drvRun = TRUE
    /\ shm = FALSE
    /\ ooo = FALSE
    /\ srvWait = 0
    /\ destroyErr = FALSE
    /\ shmOf = 0

NoOwn == [op |-> "none", before |-> None, res |-> "none", ret |-> None]

InitOwnVars ==
    /\ own = NoOwn
    /\ oraw = {}

\* A usize or isize: its eight bytes, least significant first.
Word(b0, b1, b2) == <<b0, b1, b2, 0, 0, 0, 0, 0>>
Zero == Word(0, 0, 0)

InitDataVars ==
    /\ dreq = [nframes |-> Zero, input_frame_size |-> Zero, output_frame_size |-> Zero]
    /\ dcfg = [hasInput |-> FALSE, overflowChecks |-> FALSE]
    /\ dpc = "none"
    /\ pattern = <<>>
    /\ region = <<>>
    /\ inbuf = <<>>
    /\ dcall = None
    /\ dresp = None

NoRet == [path |-> "none", val |-> 0, base |-> 0, rate |-> 0, prev |-> None]
NoCall == [n |-> 0, hits |-> 0, before |-> None, t0 |-> 0, sent |-> FALSE, prev |-> None,
           last |-> None, srv |-> None]

\* ClientStream after init: cached_position: None, cached_calls: (0, 0).
InitPosVars ==
    /\ cached_position = None
    /\ now = 0
    /\ rate = None
    /\ ppc = "idle"
    /\ pret = NoRet
    /\ prevRet = None
    /\ cached_calls = <<0, 0>>
    /\ pcall = NoCall

InitParamVars ==
    /\ praw = None
    /\ pmem = <<>>
    /\ pout = None

StreamIds == 1 .. MaxStreams

InitSetupVars ==
    /\ ipc = [i \in StreamIds |-> "start"]
    /\ icl = [i \in StreamIds |-> "none"]
    /\ isig = [i \in StreamIds |-> "none"]
    /\ ilog = [i \in StreamIds |-> <<>>]

PoolThreads == 1 .. MaxThreads
NoDev == [pc |-> "idle", cb |-> 0]

\* device_change_cb after init: Arc::new(Mutex::new(None)).
InitDevVars ==
    /\ dcb = 0
    /\ dlock = 0
    /\ dtask = [t \in PoolThreads |-> NoDev]
    /\ dreg = NoDev

InitGuardVars ==
    /\ gflag = FALSE
    /\ gpc = "idle"
    /\ gsent = {}

InitState ==
    /\ InitGuardVars
    /\ InitDevVars
    /\ InitParamVars
    /\ InitSetupVars
    /\ InitPosVars
    /\ InitDataVars
    /\ InitStreamVars
    /\ InitOwnVars
    /\ InitKernel
    /\ InitOps
    /\ InitCodecVars
    /\ InitMsgVars
    /\ InitServerVars
    /\ InitControlVars

\* ------------------------------------------------------------ the kernel
\* One process's descriptor table and close counters, as a record.
Kernel(p) == [tab |-> fds[p], ncl |-> nclose[p]]

HasFree(tab) == \E h \in FdSet : tab[h] = NoRes
LowestFree(tab) == CHOOSE h \in FdSet : tab[h] = NoRes /\ \A g \in FdSet : g < h => tab[g] # NoRes

\* The kernel installs a descriptor for object r: the lowest free number.
Install(k, r) ==
    LET h == LowestFree(k.tab)
    IN  [tab |-> [k.tab EXCEPT ![h] = r], ncl |-> [k.ncl EXCEPT ![h] = 0]]

\* libc::dup(h): the new descriptor, or -1 (EBADF, EMFILE).
libc_dup(k, h) ==
    IF h \in FdSet /\ k.tab[h] # NoRes /\ HasFree(k.tab) THEN LowestFree(k.tab) ELSE -1

\* libc::close(h).
close_platformhandle(k, h) ==
    IF h \in FdSet
    THEN [tab |-> [k.tab EXCEPT ![h] = NoRes],
          ncl |-> [k.ncl EXCEPT ![h] = IF @ < 2 THEN @ + 1 ELSE 2]]
    ELSE k

\* --------------------------------------------------------- PlatformHandle
valid_handle_unix(handle) == handle >= 0
\* The windows build: not INVALID_HANDLE_VALUE and not null.
valid_handle_windows(handle) == handle # INVALID_HANDLE_VALUE /\ handle # 0
valid_handle(handle) == IF unix THEN valid_handle_unix(handle) ELSE valid_handle_windows(handle)

\* PlatformHandle::new(raw): assert!(valid_handle(raw)); the wrapper, or a panic.
new(raw) == IF valid_handle(raw) THEN [res |-> "ok", h |-> Some(raw)] ELSE [res |-> "panic", h |-> None]

\* A Drop that closes nothing.
drop_forget(k, h) == k

\* Drop for PlatformHandle: close_platformhandle(self.0).
drop(k, h) == close_platformhandle(k, h)

\* An into_raw that lets the wrapper's Drop run.
into_raw_closing(k, h) == drop(k, h)

\* PlatformHandle::into_raw(self): mem::forget(self), nothing is closed.
into_raw(k, h) == k

\* PlatformHandle::duplicate(h), the unix build: dup, then from(newfd).
\* k is the kernel after the call.
duplicate(k, h) ==
    LET newfd == libc_dup(k, h) IN
    IF newfd < 0 THEN [res |-> "err", h |-> None, k |-> k]
    ELSE [res |-> new(newfd).res, h |-> new(newfd).h, k |-> Install(k, k.tab[h])]

\* ------------------------------------------- PlatformHandle, operation by operation
\* Process A runs any sequence of new, from, duplicate, into_raw and drop.  A raw
\* value handed to new or from is one the caller owns (a descriptor it opened or
\* got back from into_raw) or an invalid value; duplicate borrows any raw value.
SetKernel(p, k) ==
    /\ fds' = [fds EXCEPT ![p] = k.tab]
    /\ nclose' = [nclose EXCEPT ![p] = k.ncl]

RemoveAt(s, i) == SubSeq(s, 1, i - 1) \o SubSeq(s, i + 1, Len(s))

\* The caller opens a kernel object (a socket, a file): an owner of a raw descriptor.
OpOpen(r) ==
    /\ HasFree(fds["A"])
    /\ SetKernel("A", Install(Kernel("A"), r))
    /\ loose' = loose \cup {LowestFree(fds["A"])}
    /\ last' = [NoOp EXCEPT !.op = "open", !.out = LowestFree(fds["A"])]
    /\ UNCHANGED <<held, restOfOps>>

Wrap(opname, raw) ==
    LET w == new(raw) IN
    /\ Len(held) < MaxHeld
    /\ held' = IF IsSome(w.h) THEN Append(held, Unwrap(w.h)) ELSE held
    /\ loose' = IF IsSome(w.h) THEN loose \ {raw} ELSE loose
    /\ last' = [op |-> opname, raw |-> raw, res |-> w.res,
                out |-> IF IsSome(w.h) THEN Unwrap(w.h) ELSE INVALID_HANDLE_VALUE,
                made |-> IsSome(w.h)]
    /\ UNCHANGED <<fds, nclose, restOfOps>>

OpNew(raw) ==
    /\ raw \in loose \cup {h \in RawSet : h < 0}
    /\ Wrap("new", raw)

\* PlatformHandle::from(T): new(from.into_raw_fd()), T an owner of an open descriptor.
OpFrom(raw) ==
    /\ raw \in loose
    /\ Wrap("from", raw)

OpDuplicate(h) ==
    LET d == duplicate(Kernel("A"), h) IN
    /\ Len(held) < MaxHeld
    /\ SetKernel("A", d.k)
    /\ held' = IF IsSome(d.h) THEN Append(held, Unwrap(d.h)) ELSE held
    /\ last' = [op |-> "duplicate", raw |-> h, res |-> d.res,
                out |-> libc_dup(Kernel("A"), h), made |-> IsSome(d.h)]
    /\ UNCHANGED <<loose, restOfOps>>

OpIntoRaw(i) ==
    /\ i \in 1 .. Len(held)
    /\ SetKernel("A", into_raw(Kernel("A"), held[i]))
    /\ held' = RemoveAt(held, i)
    /\ loose' = loose \cup {held[i]}
    /\ last' = [NoOp EXCEPT !.op = "into_raw", !.raw = held[i], !.res = "ok", !.out = held[i]]
    /\ UNCHANGED restOfOps

OpDrop(i) ==
    /\ i \in 1 .. Len(held)
    /\ SetKernel("A", drop(Kernel("A"), held[i]))
    /\ held' = RemoveAt(held, i)
    /\ last' = [NoOp EXCEPT !.op = "drop", !.raw = held[i], !.res = "ok"]
    /\ UNCHANGED <<loose, restOfOps>>

InitHandle ==
    /\ unix = TRUE
    /\ InitState

NextHandle ==
    \/ \E r \in ResSet : OpOpen(r)
    \/ \E raw \in RawSet : OpNew(raw)
    \/ \E raw \in RawSet : OpFrom(raw)
    \/ \E h \in RawSet : OpDuplicate(h)
    \/ \E i \in 1 .. MaxHeld : OpIntoRaw(i)
    \/ \E i \in 1 .. MaxHeld : OpDrop(i)

SpecHandle == InitHandle /\ [][NextHandle]_vars

Kinds ==
    { <<"ClientMessage", "StreamCreated">>,
      <<"ClientMessage", "ContextSetupDeviceCollectionCallback">>,
      <<"ClientMessage", "StreamStarted">>,
      <<"ClientMessage", "Error">>,
      <<"CallbackReq", "SharedMem">>,
      <<"CallbackReq", "Data">>,
      <<"CallbackReq", "State">>,
      <<"CallbackReq", "DeviceChange">>,
      <<"ServerMessage", "StreamStart">>,
      <<"CallbackResp", "Data">>,
      <<"DeviceCollectionReq", "DeviceChange">>,
      <<"DeviceCollectionResp", "DeviceChange">> }

Carrying(ty, variant) ==
    \/ ty = "ClientMessage" /\ variant \in {"StreamCreated", "ContextSetupDeviceCollectionCallback"}
    \/ ty = "CallbackReq" /\ variant = "SharedMem"

Pids == {1, 2}

\* A handle travels as an i64: `handle as i64` sign-extends a c_int and
\* `value as PlatformHandleType` keeps the low 32 bits, so every value that
\* started as a c_int comes back unchanged.  The frame values of the model are
\* all c_int values.

\* RemoteHandle::new_local_with_target(handle, target_pid); handle is a PlatformHandle.
new_local_with_target(handle, target_pid) ==
    [local_handle |-> Some(handle), remote_handle |-> None, target_pid |-> Some(target_pid)]

\* RemoteHandle::new_local(handle): PlatformHandle::new may panic.
new_local(handle) ==
    [res |-> new(handle).res,
     rh |-> [local_handle |-> new(handle).h, remote_handle |-> None, target_pid |-> None]]

\* RemoteHandle::new_remote(handle).
new_remote(handle) ==
    [res |-> "ok",
     rh |-> [local_handle |-> None, remote_handle |-> Some(handle), target_pid |-> None]]

\* Serialize for RemoteHandle: remote_handle.unwrap_or(INVALID_HANDLE_VALUE) as i64.
serialize(rh) ==
    IF IsSome(rh.remote_handle) THEN Unwrap(rh.remote_handle) ELSE INVALID_HANDLE_VALUE

\* RemoteHandleVisitor::visit_i64(value).
visit_i64(value) ==
    IF ~unix
    THEN [res |-> new(value).res,
          rh |-> [local_handle |-> new(value).h,
                  remote_handle |-> None, target_pid |-> None]]
    ELSE [res |-> "ok",
          rh |-> [local_handle |-> None,
                  remote_handle |-> Some(value), target_pid |-> None]]

\* A platform_handle that reads the handle and leaves it in the message.
platform_handle_peek(msg) ==
    IF Carrying(msg.ty, msg.variant) /\ IsSome(Unwrap(msg.rh).local_handle)
                                    /\ IsSome(Unwrap(msg.rh).target_pid)
    THEN [res |-> "ok",
          ret |-> Some(<<Unwrap(Unwrap(msg.rh).local_handle), Unwrap(Unwrap(msg.rh).target_pid)>>),
          msg |-> msg]
    ELSE [res |-> IF Carrying(msg.ty, msg.variant) THEN "panic" ELSE "ok", ret |-> None, msg |-> msg]

\* AssocRawPlatformHandle::platform_handle(&mut self) of ClientMessage and CallbackReq
\* (the other message types keep the default, None).  ret is the returned
\* Option<(PlatformHandleType, u32)>, msg the message afterwards; the tuple's first
\* component is evaluated (local_handle taken and released with into_raw) before
\* target_pid.unwrap().
platform_handle(msg) ==
    IF Carrying(msg.ty, msg.variant)
    THEN LET rh == Unwrap(msg.rh)
             taken == [msg EXCEPT !.rh = Some([rh EXCEPT !.local_handle = None])]
         IN  IF ~IsSome(rh.local_handle) THEN [res |-> "panic", ret |-> None, msg |-> msg]
             ELSE IF ~IsSome(rh.target_pid) THEN [res |-> "panic", ret |-> None, msg |-> taken]
             ELSE [res |-> "ok",
                   ret |-> Some(<<Unwrap(rh.local_handle), Unwrap(rh.target_pid)>>),
                   msg |-> taken]
    ELSE [res |-> "ok", ret |-> None, msg |-> msg]

\* The RemoteHandle take_platform_handle installs for a handle the transport supplied.
Installed(handle) == IF unix THEN new_local(handle) ELSE new_remote(handle)

\* A take_platform_handle that writes only the local_handle field and keeps what
\* deserialization left in remote_handle.
take_platform_handle_field_only(msg, f) ==
    IF Carrying(msg.ty, msg.variant) /\ IsSome(f)
    THEN [res |-> "ok", called |-> TRUE, dropped |-> None,
          msg |-> [msg EXCEPT !.rh = Some([Unwrap(msg.rh) EXCEPT !.local_handle = f])]]
    ELSE [res |-> IF Carrying(msg.ty, msg.variant) THEN "panic" ELSE "ok",
          called |-> Carrying(msg.ty, msg.variant), dropped |-> None, msg |-> msg]

\* A take_platform_handle that tolerates a missing handle.
take_platform_handle_lenient(msg, f) ==
    IF Carrying(msg.ty, msg.variant) /\ IsSome(f) /\ Installed(Unwrap(f)).res = "ok"
    THEN [res |-> "ok", called |-> TRUE, dropped |-> Unwrap(msg.rh).local_handle,
          msg |-> [msg EXCEPT !.rh = Some(Installed(Unwrap(f)).rh)]]
    ELSE [res |-> "ok", called |-> Carrying(msg.ty, msg.variant), dropped |-> None, msg |-> msg]

\* AssocRawPlatformHandle::take_platform_handle(&mut self, f).  f is what the
\* transport's closure returns when it is called; called says whether it was;
\* dropped is the PlatformHandle of the replaced RemoteHandle, dropped by the
\* assignment.
take_platform_handle(msg, f) ==
    IF msg.ty \in {"ClientMessage", "CallbackReq"}
    THEN IF Carrying(msg.ty, msg.variant)
         THEN IF ~IsSome(f)
              THEN [res |-> "panic", called |-> TRUE, dropped |-> None, msg |-> msg]
              ELSE IF Installed(Unwrap(f)).res # "ok"
              THEN [res |-> "panic", called |-> TRUE, dropped |-> None, msg |-> msg]
              ELSE [res |-> "ok", called |-> TRUE,
                    dropped |-> Unwrap(msg.rh).local_handle,
                    msg |-> [msg EXCEPT !.rh = Some(Installed(Unwrap(f)).rh)]]
         ELSE [res |-> "ok", called |-> FALSE, dropped |-> None, msg |-> msg]
    ELSE [res |-> IF IsSome(f) THEN "panic" ELSE "ok",
          called |-> TRUE, dropped |-> None, msg |-> msg]

\* ------------------------------------------------ the codec, step by step
\* The RemoteHandle constructors, serialization, deserialization, platform_handle()
\* and take_platform_handle() applied to messages of every type, on either build,
\* with every value a frame can hold and every answer the transport can give.
WireValues == RawSet
Supplied == {None} \cup {Some(h) : h \in RawSet}

\* A sender builds a message; a carrying variant owns a PlatformHandle for the target.
CodecConstruct(ty, variant, h, pid) ==
    /\ valid_handle(h)
    /\ cmsg' = Some([ty |-> ty, variant |-> variant,
                     rh |-> IF Carrying(ty, variant)
                            THEN Some(new_local_with_target(h, pid)) ELSE None])
    /\ cstage' = "built"
    /\ cop' = [NoCop EXCEPT !.op = "construct", !.ty = ty, !.variant = variant, !.res = "ok"]
    /\ UNCHANGED restOfCodec

CodecPlatformHandle ==
    /\ IsSome(cmsg)
    /\ LET r == platform_handle(Unwrap(cmsg)) IN
        /\ cmsg' = IF r.res = "ok" THEN Some(r.msg) ELSE None
        /\ cstage' = IF r.res = "ok" THEN cstage ELSE "none"
        /\ cop' = [NoCop EXCEPT !.op = "platform_handle", !.ty = Unwrap(cmsg).ty, !.stage = cstage,
                                !.variant = Unwrap(cmsg).variant, !.res = r.res, !.ret = r.ret]
    /\ UNCHANGED restOfCodec

\* The frame is written: the message leaves.
CodecSerialize ==
    /\ IsSome(cmsg)
    /\ cstage = "built"
    /\ cmsg' = None
    /\ cstage' = "none"
    /\ cop' = [NoCop EXCEPT !.op = "serialize", !.ty = Unwrap(cmsg).ty, !.stage = cstage,
                            !.variant = Unwrap(cmsg).variant, !.res = "ok",
                            !.value = IF IsSome(Unwrap(cmsg).rh)
                                      THEN serialize(Unwrap(Unwrap(cmsg).rh))
                                      ELSE INVALID_HANDLE_VALUE]
    /\ UNCHANGED restOfCodec

\* A frame is decoded: a carrying variant's RemoteHandle comes from visit_i64.
CodecDeserialize(ty, variant, value) ==
    /\ cmsg' = IF ~Carrying(ty, variant)
               THEN Some([ty |-> ty, variant |-> variant, rh |-> None])
               ELSE IF visit_i64(value).res = "ok"
               THEN Some([ty |-> ty, variant |-> variant, rh |-> Some(visit_i64(value).rh)])
               ELSE None
    /\ cstage' = IF Carrying(ty, variant) /\ visit_i64(value).res # "ok" THEN "none" ELSE "decoded"
    /\ cop' = [NoCop EXCEPT !.op = "deserialize", !.ty = ty, !.variant = variant,
                            !.value = value,
                            !.res = IF Carrying(ty, variant) THEN visit_i64(value).res ELSE "ok"]
    /\ UNCHANGED restOfCodec

CodecTakePlatformHandle(f) ==
    /\ IsSome(cmsg)
    /\ LET r == take_platform_handle(Unwrap(cmsg), f) IN
        /\ cmsg' = IF r.res = "ok" THEN Some(r.msg) ELSE None
        /\ cstage' = IF r.res = "ok" THEN cstage ELSE "none"
        /\ cop' = [NoCop EXCEPT !.op = "take_platform_handle", !.ty = Unwrap(cmsg).ty, !.stage = cstage,
                                !.variant = Unwrap(cmsg).variant, !.f = f, !.res = r.res,
                                !.called = r.called]
    /\ UNCHANGED restOfCodec

InitCodec ==
    /\ unix \in BOOLEAN
    /\ InitState

NextCodec ==
    \/ \E k \in Kinds, h \in RawSet, pid \in Pids : CodecConstruct(k[1], k[2], h, pid)
    \/ CodecPlatformHandle
    \/ CodecSerialize
    \/ \E k \in Kinds, value \in WireValues : CodecDeserialize(k[1], k[2], value)
    \/ \E f \in Supplied : CodecTakePlatformHandle(f)

SpecCodec == InitCodec /\ [][NextCodec]_vars

\* The handle a RemoteHandle holds, in whichever form.
HandleField(rh) == IF IsSome(rh.local_handle) THEN rh.local_handle ELSE rh.remote_handle

\* C7: take_platform_handle on a handle-carrying message for which the transport
\* supplied no handle panics and yields no message; when it returns, the message's
\* RemoteHandle holds the supplied handle and nothing of what the frame held.
C7_MissingHandleFailsFast ==
    (cop.op = "take_platform_handle" /\ cop.stage = "decoded" /\ Carrying(cop.ty, cop.variant)) =>
        /\ ~IsSome(cop.f) => (cop.res = "panic" /\ cmsg = None)
        /\ cop.res = "ok" =>
              /\ IsSome(cop.f) /\ cop.called /\ IsSome(cmsg)
              /\ HandleField(Unwrap(Unwrap(cmsg).rh)) = cop.f
              /\ unix => ~IsSome(Unwrap(Unwrap(cmsg).rh).remote_handle)
              /\ ~unix => ~IsSome(Unwrap(Unwrap(cmsg).rh).local_handle)

\* A carrying message was decoded without a handle and the call panicked.
C7_Witness ==
    /\ cop.op = "take_platform_handle"
    /\ cop.stage = "decoded"
    /\ Carrying(cop.ty, cop.variant)
    /\ cop.f = None
    /\ cop.res = "panic"

\* C8: take_platform_handle on a message that carries no handle, when the
\* transport supplied one, panics: the closure is called and the handle is not
\* ignored.
C8_UnexpectedHandleFailsFast ==
    (unix /\ cop.op = "take_platform_handle" /\ cop.stage = "decoded"
       /\ ~Carrying(cop.ty, cop.variant) /\ IsSome(cop.f))
        => (cop.res = "panic" /\ cop.called)

\* C9: a RemoteHandle reached through the constructors, deserialization,
\* platform_handle() and take_platform_handle() never has both local_handle and
\* remote_handle populated.
C9_NeverBothPopulated ==
    (IsSome(cmsg) /\ IsSome(Unwrap(cmsg).rh)) =>
        ~(IsSome(Unwrap(Unwrap(cmsg).rh).local_handle) /\ IsSome(Unwrap(Unwrap(cmsg).rh).remote_handle))

\* A deserialized message had take_platform_handle install a supplied handle.
C9_Witness ==
    /\ cop.op = "take_platform_handle"
    /\ cop.stage = "decoded"
    /\ cop.res = "ok"
    /\ IsSome(cop.f)
    /\ IsSome(cmsg) /\ IsSome(Unwrap(cmsg).rh)
    /\ IsSome(HandleField(Unwrap(Unwrap(cmsg).rh)))

\* ------------------------------------- a handle passed from process A to B
\* The unix build.  A shares a kernel object it keeps an instance of: it builds a
\* message around a duplicate, the transport sends the frame with the descriptor
\* beside it, B's transport receives a descriptor of its own and decodes.
PidB == CHOOSE pid \in Pids : \A q \in Pids : pid >= q

AOpen(r) ==
    /\ akeep = None
    /\ SetKernel("A", Install(Kernel("A"), r))
    /\ akeep' = Some([fd |-> LowestFree(fds["A"]), obj |-> r])
    /\ UNCHANGED <<restOfMsg, amsg, wire, bmsg, xfer>>

\* A carrying variant owns PlatformHandle::duplicate of A's instance; when the
\* duplication fails there is no message.
ABuild(ty, variant) ==
    /\ IsSome(akeep)
    /\ amsg = None
    /\ IF Carrying(ty, variant)
       THEN LET d == duplicate(Kernel("A"), Unwrap(akeep).fd) IN
            /\ SetKernel("A", d.k)
            /\ amsg' = IF d.res = "ok"
                       THEN Some([ty |-> ty, variant |-> variant,
                                  rh |-> Some(new_local_with_target(Unwrap(d.h), PidB))])
                       ELSE None
       ELSE /\ amsg' = Some([ty |-> ty, variant |-> variant, rh |-> None])
            /\ UNCHANGED kernelVars
    /\ UNCHANGED <<restOfMsg, akeep, wire, bmsg, xfer>>

\* The sending transport: platform_handle() yields the descriptor to pass, the
\* frame is written with it beside, and the sender's descriptor is closed.
ASend ==
    /\ IsSome(amsg)
    /\ wire = None
    /\ LET r == platform_handle(Unwrap(amsg)) IN
       IF IsSome(r.ret)
       THEN /\ wire' = Some([ty |-> r.msg.ty, variant |-> r.msg.variant,
                             value |-> serialize(Unwrap(r.msg.rh)),
                             obj |-> Some(fds["A"][Unwrap(r.ret)[1]])])
            /\ SetKernel("A", close_platformhandle(into_raw(Kernel("A"), Unwrap(r.ret)[1]),
                                                   Unwrap(r.ret)[1]))
       ELSE /\ wire' = Some([ty |-> r.msg.ty, variant |-> r.msg.variant,
                             value |-> INVALID_HANDLE_VALUE, obj |-> None])
            /\ UNCHANGED kernelVars
    /\ amsg' = None
    /\ UNCHANGED <<restOfMsg, akeep, bmsg, xfer>>

\* The message as deserialized from the frame.
Decoded(w) ==
    [ty |-> w.ty, variant |-> w.variant,
     rh |-> IF Carrying(w.ty, w.variant) THEN Some(visit_i64(w.value).rh) ELSE None]

\* The receiving transport: the kernel installs a descriptor for the object passed
\* beside the frame, the frame is decoded and take_platform_handle is given the
\* descriptor.
BReceive ==
    /\ IsSome(wire)
    /\ bmsg = None
    /\ IsSome(Unwrap(wire).obj) => HasFree(fds["B"])
    /\ LET w == Unwrap(wire)
           k1 == IF IsSome(w.obj) THEN Install(Kernel("B"), Unwrap(w.obj)) ELSE Kernel("B")
           f == IF IsSome(w.obj) THEN Some(LowestFree(fds["B"])) ELSE None
           t == take_platform_handle(Decoded(w), f)
       IN  /\ bmsg' = IF t.res = "ok" THEN Some(t.msg) ELSE None
           /\ SetKernel("B", IF IsSome(t.dropped) THEN drop(k1, Unwrap(t.dropped)) ELSE k1)
           /\ xfer' = [obj |-> IF IsSome(w.obj) THEN Unwrap(w.obj) ELSE NoRes, released |-> None]
    /\ wire' = None
    /\ UNCHANGED <<restOfMsg, akeep, amsg>>

\* B is done with the message: dropping it drops the PlatformHandle it owns.
BRelease ==
    /\ IsSome(bmsg)
    /\ LET rh == Unwrap(bmsg).rh IN
       IF IsSome(rh) /\ IsSome(Unwrap(rh).local_handle)
       THEN /\ SetKernel("B", drop(Kernel("B"), Unwrap(Unwrap(rh).local_handle)))
            /\ xfer' = [xfer EXCEPT !.released = Unwrap(rh).local_handle]
       ELSE UNCHANGED <<kernelVars, xfer>>
    /\ bmsg' = None
    /\ UNCHANGED <<restOfMsg, akeep, amsg, wire>>

InitMsg ==
    /\ unix = TRUE
    /\ InitState

NextMsg ==
    \/ \E r \in ResSet : AOpen(r)
    \/ \E k \in Kinds : ABuild(k[1], k[2])
    \/ ASend
    \/ BReceive
    \/ BRelease

SpecMsg == InitMsg /\ [][NextMsg]_vars

Sock1(c) == c

\* MessageStream::anonymous_ipc_pair() returns; on Ok the closure is spawned on the
\* core thread and the caller goes on to wait_rx.wait(); on Err and_then is skipped
\* and unwrap_or gives -1.
NewClientPair(c, ok) ==
    /\ ncPc[c] = "idle"
    /\ pairRes' = [pairRes EXCEPT ![c] = IF ok THEN "ok" ELSE "err"]
    /\ IF ok
       THEN /\ ncPc' = [ncPc EXCEPT ![c] = "waiting"]
            /\ sock2' = [sock2 EXCEPT ![c] = "open"]
            /\ waitTx' = [waitTx EXCEPT ![c] = "pending"]
            /\ closure' = [closure EXCEPT ![c] = "spawned"]
            /\ coreQ' = Append(coreQ, c)
            /\ ret' = ret
       ELSE /\ ncPc' = [ncPc EXCEPT ![c] = "returned"]
            /\ ret' = [ret EXCEPT ![c] = Some(INVALID_HANDLE_VALUE)]
            /\ UNCHANGED <<sock2, waitTx, closure, coreQ>>
    /\ UNCHANGED <<req, restOfServer>>

\* The core thread runs the closure at the head of its queue:
\* sock2.into_tokio_ipc(handle), which registers sock2 with the reactor or fails.
\* On failure map_err yields Err(()), the second and_then is skipped, and the
\* closure ends: sock2 and wait_tx are dropped with it.
CoreRegister(ok) ==
    /\ coreQ # <<>>
    /\ closure[Head(coreQ)] = "spawned"
    /\ IF ok
       THEN /\ sock2' = [sock2 EXCEPT ![Head(coreQ)] = "registered"]
            /\ closure' = [closure EXCEPT ![Head(coreQ)] = "registered"]
            /\ UNCHANGED <<waitTx, coreQ>>
       ELSE /\ sock2' = [sock2 EXCEPT ![Head(coreQ)] = "closed"]
            /\ closure' = [closure EXCEPT ![Head(coreQ)] = "failed"]
            /\ waitTx' = [waitTx EXCEPT ![Head(coreQ)] = "dropped"]
            /\ coreQ' = Tail(coreQ)
    /\ UNCHANGED <<ncPc, pairRes, ret, req, restOfServer>>

\* framed_with_platformhandles and rpc::bind_server(transport, CubebServer, handle).
CoreBind ==
    /\ coreQ # <<>>
    /\ closure[Head(coreQ)] = "registered"
    /\ sock2' = [sock2 EXCEPT ![Head(coreQ)] = "bound"]
    /\ closure' = [closure EXCEPT ![Head(coreQ)] = "bound"]
    /\ UNCHANGED <<ncPc, pairRes, coreQ, waitTx, ret, req, restOfServer>>

\* .and_then(|_| wait_tx.send(())): the closure's last step.
CoreNotify ==
    /\ coreQ # <<>>
    /\ closure[Head(coreQ)] = "bound"
    /\ waitTx' = [waitTx EXCEPT ![Head(coreQ)] = "sent"]
    /\ closure' = [closure EXCEPT ![Head(coreQ)] = "done"]
    /\ coreQ' = Tail(coreQ)
    /\ UNCHANGED <<ncPc, pairRes, sock2, ret, req, restOfServer>>

\* The return value once wait_rx.wait() has returned with result waited
\* ("sent": Ok(()), "dropped": Err(Canceled)): `let _ = wait_rx.wait()` drops the
\* result and the closure yields Ok(PlatformHandle::from(sock1).as_raw()).
new_client_result(c, waited) == Sock1(c)

\* wait_rx.wait() returns, when the message was sent or when the sender was dropped.
NewClientReturn(c) ==
    /\ ncPc[c] = "waiting"
    /\ waitTx[c] \in {"sent", "dropped"}
    /\ ret' = [ret EXCEPT ![c] = Some(new_client_result(c, waitTx[c]))]
    /\ ncPc' = [ncPc EXCEPT ![c] = "returned"]
    /\ UNCHANGED <<pairRes, coreQ, closure, sock2, waitTx, req, restOfServer>>

\* The holder of a returned handle sends its first request on it.  With the peer
\* closed nobody will ever read it.
ClientRequest(c) ==
    /\ ncPc[c] = "returned"
    /\ Unwrap(ret[c]) # INVALID_HANDLE_VALUE
    /\ req[c] = "none"
    /\ req' = [req EXCEPT ![c] = IF sock2[c] = "closed" THEN "unserved" ELSE "queued"]
    /\ UNCHANGED <<ncPc, pairRes, coreQ, closure, sock2, waitTx, ret, restOfServer>>

\* The bound RPC server reads and serves the request.
ServerServe(c) ==
    /\ req[c] = "queued"
    /\ sock2[c] = "bound"
    /\ req' = [req EXCEPT ![c] = "served"]
    /\ UNCHANGED <<ncPc, pairRes, coreQ, closure, sock2, waitTx, ret, restOfServer>>

InitServer ==
    /\ unix = TRUE
    /\ InitState

NextServer ==
    \/ \E c \in Clients, ok \in BOOLEAN : NewClientPair(c, ok)
    \/ \E ok \in BOOLEAN : CoreRegister(ok)
    \/ CoreBind
    \/ CoreNotify
    \/ \E c \in Clients : NewClientReturn(c)
    \/ \E c \in Clients : ClientRequest(c)
    \/ \E c \in Clients : ServerServe(c)

SpecServer == InitServer /\ [][NextServer]_vars

\* C2: when audioipc_server_new_client returns a handle other than -1 the peer
\* endpoint is registered and bound to an RPC server, so that the first request on
\* the handle is served; when creating the pair or registering the peer failed it
\* returns -1.
C2_HandoffSafety ==
    \A c \in Clients :
        /\ (ncPc[c] = "returned" /\ Unwrap(ret[c]) # INVALID_HANDLE_VALUE) => sock2[c] = "bound"
        /\ (ncPc[c] = "returned" /\ (pairRes[c] = "err" \/ closure[c] = "failed"))
              => Unwrap(ret[c]) = INVALID_HANDLE_VALUE
        /\ req[c] # "unserved"

\* ------------------------------------------------- the control connection
\* Caller thread t drives the stream with token t; all streams share the
\* context's control connection.  A facade operation is
\*     assert_not_in_callback(); let rpc = self.context.rpc();
\*     send_recv!(rpc, Request(self.token) => Response)
\* which writes one request and blocks the thread until a response is read.
FacadeOps == {"StreamStart", "StreamStop", "StreamGetPosition"}

\* The response variant each send_recv! names for its request.
Expected(kind) ==
    CASE kind = "StreamStart" -> "StreamStarted"
      [] kind = "StreamStop" -> "StreamStopped"
      [] kind = "StreamGetPosition" -> "StreamPosition"

\* A stop() that writes its request and returns without reading the response.
CallSendStopReturnsEarly(t, kind) ==
    /\ tpc[t] = "idle"
    /\ nSent < MaxCalls
    /\ nSent' = nSent + 1
    /\ ctlReq' = Append(ctlReq, [seq |-> nSent + 1, kind |-> kind, token |-> t])
    /\ IF kind = "StreamStop"
       THEN UNCHANGED <<tpc, treq>>
       ELSE /\ treq' = [treq EXCEPT ![t] = Some([seq |-> nSent + 1, kind |-> kind, token |-> t])]
            /\ tpc' = [tpc EXCEPT ![t] = "waiting"]
    /\ overlap' = (overlap \/ \E u \in Threads \ {t} : tpc[u] # "idle")
    /\ UNCHANGED <<tgot, ctlResp, nRecv, restOfControl>>

\* start(), stop(), position() (the uncached path): the request is written and
\* the thread blocks.  Nothing keeps a thread from entering while another
\* thread's call on the same context is in progress.
CallSend(t, kind) ==
    /\ tpc[t] = "idle"
    /\ nSent < MaxCalls
    /\ nSent' = nSent + 1
    /\ ctlReq' = Append(ctlReq, [seq |-> nSent + 1, kind |-> kind, token |-> t])
    /\ treq' = [treq EXCEPT ![t] = Some([seq |-> nSent + 1, kind |-> kind, token |-> t])]
    /\ tpc' = [tpc EXCEPT ![t] = "waiting"]
    /\ overlap' = (overlap \/ \E u \in Threads \ {t} : tpc[u] # "idle")
    /\ UNCHANGED <<tgot, ctlResp, nRecv, restOfControl>>

\* The server reads the next request and writes its response: the matching
\* variant, or Error.
ServerAnswer(err) ==
    /\ ctlReq # <<>>
    /\ ctlResp' = Append(ctlResp, [kind |-> IF err THEN "Error" ELSE Expected(Head(ctlReq).kind),
                                    forSeq |-> Head(ctlReq).seq])
    /\ ctlReq' = Tail(ctlReq)
    /\ UNCHANGED <<tpc, treq, tgot, nSent, nRecv, overlap, restOfControl>>

\* The next response frame is read and a blocked call returns with it.  The
\* pairing is by calling convention: the frame goes to the call that waits, and
\* with several calls waiting to any of them.
CallReturn(t) ==
    /\ tpc[t] = "waiting"
    /\ ctlResp # <<>>
    /\ tgot' = [tgot EXCEPT ![t] = Some([resp |-> Head(ctlResp), sent |-> Unwrap(treq[t]),
                                         nth |-> nRecv + 1])]
    /\ nRecv' = nRecv + 1
    /\ ctlResp' = Tail(ctlResp)
    /\ tpc' = [tpc EXCEPT ![t] = "idle"]
    /\ treq' = [treq EXCEPT ![t] = None]
    /\ UNCHANGED <<ctlReq, nSent, overlap, restOfControl>>

InitControl ==
    /\ unix = TRUE
    /\ InitState

NextControl ==
    \/ \E t \in Threads, kind \in FacadeOps : CallSend(t, kind)
    \/ \E err \in BOOLEAN : ServerAnswer(err)
    \/ \E t \in Threads : CallReturn(t)

SpecControl == InitControl /\ [][NextControl]_vars

\* C3: as long as the calls on the control connection are issued one at a time,
\* the Nth response read is the response to the Nth request written, it is the
\* response to the request of the call that returns with it (the variant that
\* call expects, or Error), and no more responses have been read than requests
\* written.
C3_RequestResponsePairing ==
    ~overlap =>
        /\ nRecv <= nSent
        /\ \A t \in Threads : IsSome(tgot[t]) =>
              /\ Unwrap(tgot[t]).resp.forSeq = Unwrap(tgot[t]).nth
              /\ Unwrap(tgot[t]).resp.forSeq = Unwrap(tgot[t]).sent.seq
              /\ Unwrap(tgot[t]).resp.kind \in {Expected(Unwrap(tgot[t]).sent.kind), "Error"}

\* Three calls were made one at a time, by both threads, and the last returned.
C3_Witness ==
    /\ ~overlap
    /\ nRecv = MaxCalls
    /\ \A t \in Threads : IsSome(tgot[t])

\* C5: at most one request awaits its response on the context's control
\* connection.
C5_OneOutstandingCall ==
    Cardinality({t \in Threads : tpc[t] = "waiting"}) <= 1

\* ------------------------------------------------- one stream's callbacks
\* The server sends CallbackReq frames on the stream's callback connection; the
\* client's reactor thread hands each to CallbackServer::process, which spawns a
\* closure on the worker pool and returns its future; the driver writes the
\* closures' results back.  The stream's user callbacks are supplied (data_cb
\* and state_cb are Some).
CallbackKinds == {"Data", "State", "DeviceChange", "SharedMem"}

\* A CallbackReq on the wire: SharedMem carries whether its handle arrived and
\* maps, Data whether its sizes pass the assertions of the Data arm (data_arm
\* below); the others have ok = TRUE.
CallbackReqs ==
    {[kind |-> k, ok |-> TRUE] : k \in CallbackKinds}
        \cup {[kind |-> k, ok |-> FALSE] : k \in {"SharedMem", "Data"}}

\* A process that spawns the Data closure whether or not self.shm is Some.
process_unchecked(creq, shmSome) ==
    IF creq.kind = "SharedMem"
    THEN [res |-> "spawned", shm |-> TRUE, user |-> FALSE]
    ELSE [res |-> "spawned", shm |-> shmSome, user |-> TRUE]

\* CallbackServer::process: the panics of the reactor-thread part, the new value
\* of self.shm, and whether the spawned closure calls into user code.
process(creq, shmSome) ==
    CASE creq.kind = "Data" ->
            IF shmSome /\ creq.ok THEN [res |-> "spawned", shm |-> shmSome, user |-> TRUE]
                       ELSE [res |-> "panic", shm |-> shmSome, user |-> FALSE]
      [] creq.kind = "State" -> [res |-> "spawned", shm |-> shmSome, user |-> TRUE]
      [] creq.kind = "DeviceChange" -> [res |-> "spawned", shm |-> shmSome, user |-> TRUE]
      [] creq.kind = "SharedMem" ->
            IF creq.ok THEN [res |-> "spawned", shm |-> TRUE, user |-> FALSE]
                      ELSE [res |-> "panic", shm |-> shmSome, user |-> FALSE]

\* A closure that answers every request with CallbackResp::State.
CallbackRespState(kind) == "State"

\* The response variant a closure resolves to.
CallbackResp(kind) == kind

\* Dropping a CpuFuture: a closure not yet started never runs, a closure that
\* is running is not interrupted.
Cancelled(tk, ids) ==
    [id \in TaskIds |-> IF id \in ids /\ tk[id].st = "queued"
                         THEN [tk[id] EXCEPT !.st = "cancelled"] ELSE tk[id]]

Range(q) == {q[i] : i \in 1 .. Len(q)}

\* A CallbackServer whose drop leaves a sender of the shutdown channel alive
\* elsewhere: the channel stays open.
DropServerSenderKept ==
    /\ srvAlive' = srvAlive
    /\ drvRun' = FALSE
    /\ inFlight' = <<>>
    /\ task' = Cancelled(task, Range(inFlight))

\* The driver ends: the CallbackServer is dropped, and with it _shutdown_tx and
\* the futures still in flight.
DropServer ==
    /\ srvAlive' = FALSE
    /\ drvRun' = FALSE
    /\ inFlight' = <<>>
    /\ task' = Cancelled(task, Range(inFlight))

\* The remote server sends a callback request for the stream.
ServerSendEvent(creq) ==
    /\ cbConn = "open"
    /\ nEvents < MaxEvents
    /\ nEvents' = nEvents + 1
    /\ cbIn' = Append(cbIn, creq)
    /\ UNCHANGED <<spc, cbConn, cbOut, inFlight, task, nArrived, srvAlive, drvRun, shm, ooo,
                   srvWait, destroyErr, shmOf, restOfStream>>

\* A reactor thread that runs the user's callback itself, or waits for it: it
\* reads no request while a callback is running.
ReactorProcessBlocking ==
    /\ \A t \in TaskIds : ~(task[t].user /\ task[t].st = "running")
    /\ srvAlive
    /\ drvRun
    /\ cbIn # <<>>
    /\ cbIn' = Tail(cbIn)
    /\ nArrived' = nArrived + 1
    /\ task' = [task EXCEPT ![nArrived + 1] = [kind |-> Head(cbIn).kind, st |-> "queued",
                                                user |-> TRUE, ret |-> 0, view |-> shmOf]]
    /\ inFlight' = Append(inFlight, nArrived + 1)
    /\ UNCHANGED <<spc, cbConn, cbOut, nEvents, srvAlive, drvRun, shm, ooo, srvWait,
                   destroyErr, shmOf, restOfStream>>

\* The reactor thread reads the next request and calls process; a panic in
\* process unwinds the reactor's task and drops the CallbackServer.
ReactorProcess ==
    /\ srvAlive
    /\ drvRun
    /\ cbIn # <<>>
    /\ cbIn' = Tail(cbIn)
    /\ LET r == process(Head(cbIn), shm)
           id == nArrived + 1
       IN  IF r.res = "panic"
           THEN /\ DropServer
                /\ UNCHANGED <<nArrived, shm, shmOf>>
           ELSE /\ nArrived' = id
                /\ shm' = r.shm
                /\ shmOf' = IF Head(cbIn).kind = "SharedMem" THEN id ELSE shmOf
                /\ task' = [task EXCEPT ![id] = [kind |-> Head(cbIn).kind, st |-> "queued",
                                                 user |-> r.user, ret |-> 0,
                                                 view |-> IF Head(cbIn).kind = "Data"
                                                          THEN shmOf ELSE 0]]
                /\ inFlight' = Append(inFlight, id)
                /\ UNCHANGED <<srvAlive, drvRun>>
    /\ UNCHANGED <<spc, cbConn, cbOut, nEvents, ooo, srvWait, destroyErr, restOfStream>>

\* Closures that run on the thread that makes the control calls: none starts
\* while that thread is blocked in one.
PoolStartOnCaller(id) ==
    /\ spc # "calling"
    /\ task[id].st = "queued"
    /\ task' = [task EXCEPT ![id].st = "running"]
    /\ UNCHANGED <<spc, cbConn, cbIn, cbOut, inFlight, nEvents, nArrived, srvAlive, drvRun, shm,
                   ooo, srvWait, destroyErr, shmOf, restOfStream>>

\* A worker-pool thread starts a spawned closure: for Data, State and
\* DeviceChange the user's callback is now running.
PoolStart(id) ==
    /\ task[id].st = "queued"
    /\ task' = [task EXCEPT ![id].st = "running"]
    /\ UNCHANGED <<spc, cbConn, cbIn, cbOut, inFlight, nEvents, nArrived, srvAlive, drvRun, shm,
                   ooo, srvWait, destroyErr, shmOf, restOfStream>>

\* What the user's callback can return to the closure: the data callback a
\* frame count or a negative error, the others nothing.
CallbackReturns(kind) == IF kind = "Data" THEN {-1, 2} ELSE {0}

\* The closure returns, the data closure with what the user's callback returned
\* (n); closures of different requests finish in any order.
PoolFinish(id, n) ==
    /\ task[id].st = "running"
    /\ n \in CallbackReturns(task[id].kind)
    /\ task' = [task EXCEPT ![id].st = "done", ![id].ret = n]
    /\ ooo' = (ooo \/ \E e \in Range(inFlight) : e < id /\ task[e].st # "done")
    /\ UNCHANGED <<spc, cbConn, cbIn, cbOut, inFlight, nEvents, nArrived, srvAlive, drvRun, shm,
                   srvWait, destroyErr, shmOf, restOfStream>>

\* The closure panics on its pool thread: the unwrap of the output slice
\* (stream.rs:129), cb.lock().unwrap() on a poisoned mutex (stream.rs:169), or
\* the user's callback.  Nothing in the closure catches it; the SharedMem
\* closure only returns a value.
PoolPanic(id) ==
    /\ task[id].st = "running"
    /\ task[id].user
    /\ task' = [task EXCEPT ![id].st = "panicked"]
    /\ UNCHANGED <<spc, cbConn, cbIn, cbOut, inFlight, nEvents, nArrived, srvAlive, drvRun, shm,
                   ooo, srvWait, destroyErr, shmOf, restOfStream>>

\* A driver that writes whichever finished response it finds first.
ReactorProduceAnyDone ==
    /\ srvAlive
    /\ cbConn = "open"
    /\ \E i \in 1 .. Len(inFlight) :
          /\ task[inFlight[i]].st = "done"
          /\ cbOut' = Append(cbOut, [id |-> inFlight[i],
                                     resp |-> CallbackResp(task[inFlight[i]].kind),
                                     n |-> task[inFlight[i]].ret])
          /\ inFlight' = RemoveAt(inFlight, i)
    /\ UNCHANGED <<spc, cbConn, cbIn, task, nEvents, nArrived, srvAlive, drvRun, shm, ooo,
                   srvWait, destroyErr, shmOf, restOfStream>>

\* The driver writes the response of the oldest request in flight once its
\* closure has finished.  Writing to a connection the peer has closed is a
\* transport error, which ends the driver.
ReactorProduce ==
    /\ srvAlive
    /\ inFlight # <<>>
    /\ task[Head(inFlight)].st = "done"
    /\ IF cbConn = "open"
       THEN /\ cbOut' = Append(cbOut, [id |-> Head(inFlight),
                                       resp |-> CallbackResp(task[Head(inFlight)].kind),
                                       n |-> task[Head(inFlight)].ret])
            /\ inFlight' = Tail(inFlight)
            /\ UNCHANGED <<task, srvAlive, drvRun>>
       ELSE /\ DropServer
            /\ UNCHANGED cbOut
    /\ UNCHANGED <<spc, cbConn, cbIn, nEvents, nArrived, shm, ooo, srvWait, destroyErr,
                   shmOf, restOfStream>>

\* The driver polls the future of the oldest request in flight and its closure
\* has panicked: CallbackResp has no variant for a failure, and the future hands
\* the panic to the thread that polls it ("reraised"), which unwinds the
\* driver and drops the CallbackServer with the other futures in flight.
ReactorPollPanicked ==
    /\ srvAlive
    /\ inFlight # <<>>
    /\ task[Head(inFlight)].st = "panicked"
    /\ srvAlive' = FALSE
    /\ drvRun' = FALSE
    /\ inFlight' = <<>>
    /\ task' = [Cancelled(task, Range(inFlight)) EXCEPT ![Head(inFlight)].st = "reraised"]
    /\ UNCHANGED <<spc, cbConn, cbIn, cbOut, nEvents, nArrived, shm, ooo, srvWait, destroyErr,
                   shmOf, restOfStream>>

\* The reactor detects that the connection was closed.  The CallbackServer
\* drops "once the connection close is detected": at once, or (graceful) after
\* the requests in flight have been answered.
ReactorDetectClose(graceful) ==
    /\ srvAlive
    /\ drvRun
    /\ cbConn = "closed"
    /\ cbIn = <<>>
    /\ IF graceful
       THEN /\ drvRun' = FALSE
            /\ UNCHANGED <<srvAlive, inFlight, task>>
       ELSE DropServer
    /\ UNCHANGED <<spc, cbConn, cbIn, cbOut, nEvents, nArrived, shm, ooo, srvWait, destroyErr,
                   shmOf, restOfStream>>

\* A driver that has stopped reading ends when nothing is in flight.
DriverDone ==
    /\ srvAlive
    /\ ~drvRun
    /\ inFlight = <<>>
    /\ DropServer
    /\ UNCHANGED <<spc, cbConn, cbIn, cbOut, nEvents, nArrived, shm, ooo, srvWait, destroyErr,
                   shmOf, restOfStream>>

\* Drop for ClientStream, first half: StreamDestroy is sent and the thread
\* blocks for the response.
StreamDropSend ==
    /\ spc = "live"
    /\ spc' = "destroying"
    /\ UNCHANGED <<cbConn, cbIn, cbOut, inFlight, task, nEvents, nArrived, srvAlive, drvRun, shm,
                   ooo, srvWait, destroyErr, shmOf, restOfStream>>

\* The remote server handles StreamDestroy: it drops the stream's callback
\* connection and answers (ok), or answers Error and leaves the stream alone.
\* The result of send_recv! is discarded (let _ =), and the thread goes on to
\* shutdown_rx.recv().
ServerDestroy(ok) ==
    /\ spc = "destroying"
    /\ spc' = "waiting"
    /\ cbConn' = IF ok THEN "closed" ELSE cbConn
    /\ destroyErr' = ~ok
    /\ UNCHANGED <<cbIn, cbOut, inFlight, task, nEvents, nArrived, srvAlive, drvRun, shm, ooo,
                   srvWait, shmOf, restOfStream>>

\* The remote end of the callback connection goes away by itself.
PeerClose ==
    /\ cbConn = "open"
    /\ cbConn' = "closed"
    /\ UNCHANGED <<spc, cbIn, cbOut, inFlight, task, nEvents, nArrived, srvAlive, drvRun, shm,
                   ooo, srvWait, destroyErr, shmOf, restOfStream>>

\* Drop for ClientStream, second half: shutdown_rx.recv() returns (with an
\* error) as soon as the only sender, the one inside CallbackServer, is gone.
StreamDropReturn ==
    /\ spc = "waiting"
    /\ ~srvAlive
    /\ spc' = "dropped"
    /\ UNCHANGED <<cbConn, cbIn, cbOut, inFlight, task, nEvents, nArrived, srvAlive, drvRun, shm,
                   ooo, srvWait, destroyErr, shmOf, restOfStream>>

\* A facade call on the control connection (start, stop, ... ; StreamInit at
\* the end of init): the request is sent and the calling thread blocks in
\* send_recv! until the control response arrives.
StreamCallSend ==
    /\ spc = "live"
    /\ spc' = "calling"
    /\ UNCHANGED <<cbConn, cbIn, cbOut, inFlight, task, nEvents, nArrived, srvAlive, drvRun, shm,
                   ooo, srvWait, destroyErr, shmOf, restOfStream>>

\* While it handles the control request the remote server sends a state
\* callback on the callback connection and waits for its response before it
\* answers the control request.
ServerCallEvent ==
    /\ spc = "calling"
    /\ srvWait = 0
    /\ cbConn = "open"
    /\ nEvents < MaxEvents
    /\ nEvents' = nEvents + 1
    /\ cbIn' = Append(cbIn, [kind |-> "State", ok |-> TRUE])
    /\ srvWait' = nEvents + 1
    /\ UNCHANGED <<spc, cbConn, cbOut, inFlight, task, nArrived, srvAlive, drvRun, shm, ooo,
                   destroyErr, shmOf, restOfStream>>

\* The callback request with this number has its response on the connection.
\* Requests are numbered as they are sent; process numbers them as they arrive.
Answered(e) == \E i \in 1 .. Len(cbOut) : cbOut[i].id = e

\* The remote server answers the control request: at once when it awaits no
\* callback response, else when that response has arrived or the callback
\* connection has failed.  The blocked thread returns from send_recv!.
ServerCallAnswer ==
    /\ spc = "calling"
    /\ srvWait # 0 => (Answered(srvWait) \/ ~srvAlive \/ cbConn = "closed")
    /\ spc' = "live"
    /\ srvWait' = 0
    /\ UNCHANGED <<cbConn, cbIn, cbOut, inFlight, task, nEvents, nArrived, srvAlive, drvRun, shm,
                   ooo, destroyErr, shmOf, restOfStream>>

InitStream ==
    /\ unix = TRUE
    /\ InitState

NextStream ==
    \/ \E creq \in CallbackReqs : ServerSendEvent(creq)
    \/ ReactorProcess
    \/ \E id \in TaskIds : PoolStart(id)
    \/ \E id \in TaskIds, n \in {-1, 0, 2} : PoolFinish(id, n)
    \/ \E id \in TaskIds : PoolPanic(id)
    \/ ReactorProduce
    \/ ReactorPollPanicked
    \/ \E graceful \in BOOLEAN : ReactorDetectClose(graceful)
    \/ DriverDone
    \/ StreamDropSend
    \/ \E ok \in BOOLEAN : ServerDestroy(ok)
    \/ PeerClose
    \/ StreamDropReturn
    \/ StreamCallSend
    \/ ServerCallEvent
    \/ ServerCallAnswer

SpecStream == InitStream /\ [][NextStream]_vars

\* The reactor thread and the pool threads are scheduled: a request that was
\* read is processed, a spawned closure starts, a closure that runs ends (the
\* user's callback returns or panics), the driver polls its futures and the
\* connection, and a thread whose recv() can return does return.
SpecStreamFair ==
    /\ SpecStream
    /\ WF_vars(ReactorProcess)
    /\ WF_vars(\E id \in TaskIds : PoolStart(id))
    /\ WF_vars(\E id \in TaskIds : (PoolPanic(id) \/ \E n \in {-1, 0, 2} : PoolFinish(id, n)))
    /\ WF_vars(ReactorProduce)
    /\ WF_vars(ReactorPollPanicked)
    /\ WF_vars(\E graceful \in BOOLEAN : ReactorDetectClose(graceful))
    /\ WF_vars(DriverDone)
    /\ WF_vars(StreamDropReturn)

\* C1: once dropping the ClientStream has returned, no closure dispatched for
\* the stream is running the user's callback and none can still start.
C1_TeardownOrdering ==
    spc = "dropped" =>
        \A id \in TaskIds : task[id].user => task[id].st \notin {"queued", "running"}

\* C4: the i-th response written on the callback connection is the response to
\* the i-th request received on it, whatever order the closures finish in.
C4_ResponsesInArrivalOrder ==
    \A i \in 1 .. Len(cbOut) :
        /\ cbOut[i].id = i
        /\ cbOut[i].resp = CallbackResp(task[i].kind)

\* A later request's closure finished first, and both responses were written.
C4_Witness ==
    /\ ooo
    /\ Len(cbOut) >= 2

\* C16: while the calling thread is blocked in a control call and the remote
\* server is waiting for the response to a callback request before it answers
\* that call, the callback side of the client can take a step: the reactor
\* thread or a pool thread, neither of which is the blocked thread.
C16_CallbackSideIndependent ==
    (/\ spc = "calling"
     /\ srvWait # 0
     /\ ~Answered(srvWait)
     /\ srvAlive
     /\ cbConn = "open") =>
        ENABLED (\/ ReactorProcess
                 \/ \E id \in TaskIds : PoolStart(id)
                 \/ \E id \in TaskIds, n \in {-1, 0, 2} : PoolFinish(id, n)
                 \/ \E id \in TaskIds : PoolPanic(id)
                 \/ ReactorProduce
                 \/ ReactorPollPanicked)

\* The callback request the server waits on was dispatched and answered while
\* the calling thread was still blocked in the control call.
C16_Witness ==
    /\ spc = "calling"
    /\ srvWait # 0
    /\ Answered(srvWait)

\* C17: once the callback connection is closed the CallbackServer is
\* eventually dropped, and a thread waiting in shutdown_rx.recv() at the end of
\* Drop for ClientStream eventually returns, whether StreamDestroy was answered
\* with success or with an error.
C17_PeerCloseEndsTeardown ==
    /\ (cbConn = "closed") ~> ~srvAlive
    /\ (cbConn = "closed" /\ spc = "waiting") ~> (spc = "dropped")

\* Teardown has returned after StreamDestroy failed and the peer closed the
\* callback connection.
C17_Witness ==
    /\ spc = "dropped"
    /\ destroyErr
    /\ cbConn = "closed"

\* C18: every response on the callback connection answers a request whose
\* closure has returned, with the variant named like the request; a Data
\* response carries exactly what the data callback returned.
C18_ResponseMatchesRequest ==
    \A i \in 1 .. Len(cbOut) :
        LET t == task[cbOut[i].id]
        IN  /\ t.st = "done"
            /\ cbOut[i].resp = t.kind
            /\ t.kind = "Data" => cbOut[i].n = t.ret

\* A Data request answered with the callback's frame count and a request of
\* another kind answered too.
C18_Witness ==
    /\ \E i \in 1 .. Len(cbOut) : cbOut[i].resp = "Data" /\ cbOut[i].n = 2
    /\ \E i \in 1 .. Len(cbOut) : cbOut[i].resp = "SharedMem"

\* C21: the user's callbacks run in closures on the worker pool, not on the
\* reactor thread: while a user callback is running and a request is waiting
\* on the callback connection, the reactor thread can read and process it.
C21_ReactorNotBlockedByCallback ==
    (/\ \E id \in TaskIds : task[id].user /\ task[id].st = "running"
     /\ srvAlive
     /\ cbIn # <<>>) =>
        ENABLED ReactorProcess

\* A request was received and dispatched while the user's callback of an
\* earlier request was still running.
C21_Witness ==
    \E a, b \in TaskIds :
        /\ a < b
        /\ task[a].user
        /\ task[a].st = "running"
        /\ task[b].st = "queued"

\* C25: every Data closure that was spawned, and so every invocation of the
\* data callback, works on a region a SharedMem request installed: the one
\* installed by the latest SharedMem request received before the Data request.
\* A Data request received before any SharedMem request spawns no closure.
C25_SharedMemBeforeData ==
    \A id \in TaskIds :
        task[id].kind = "Data" =>
            /\ task[id].view \in 1 .. (id - 1)
            /\ task[task[id].view].kind = "SharedMem"
            /\ \A j \in (task[id].view + 1) .. (id - 1) : task[j].kind # "SharedMem"

\* The data callback is running on the region of the second SharedMem request.
C25_Witness ==
    \E id \in TaskIds :
        /\ task[id].kind = "Data"
        /\ task[id].st = "running"
        /\ task[id].view = 2

\* C15: a panic of a closure on the worker pool is contained: once the driver
\* has polled the panicked closure's future, the CallbackServer is still alive
\* on the reactor and the request has a response on the callback connection.
C15_CallbackFailureContained ==
    \A id \in TaskIds :
        task[id].st = "reraised" =>
            /\ srvAlive
            /\ \E i \in 1 .. Len(cbOut) : cbOut[i].id = id

\* -------------------------------------- a message's handle on the sending side
\* The unix build.  Process A builds a message, the transport calls
\* platform_handle() on it (once, or again on a message it was already called
\* on), the message is dropped, and the transport closes the raw descriptor it
\* was handed once the frame has gone out.
OwnBuild(ty, variant, r, withTarget) ==
    /\ amsg = None
    /\ IF Carrying(ty, variant)
       THEN /\ HasFree(fds["A"])
            /\ SetKernel("A", Install(Kernel("A"), r))
            /\ amsg' = Some([ty |-> ty, variant |-> variant,
                             rh |-> Some(IF withTarget
                                         THEN new_local_with_target(LowestFree(fds["A"]), PidB)
                                         ELSE new_local(LowestFree(fds["A"])).rh)])
       ELSE /\ amsg' = Some([ty |-> ty, variant |-> variant, rh |-> None])
            /\ UNCHANGED kernelVars
    /\ own' = [NoOwn EXCEPT !.op = "build"]
    /\ UNCHANGED <<oraw, akeep, wire, bmsg, xfer, restOfOwn>>

\* The PlatformHandle a message owns, if any.
OwnedBy(msg) ==
    IF IsSome(msg.rh) THEN Unwrap(msg.rh).local_handle ELSE None

\* platform_handle() is called; the handle it takes out is released with
\* into_raw and the raw value is the caller's.  A panic unwinds and drops the
\* message.
OwnPlatformHandle ==
    /\ IsSome(amsg)
    /\ LET m == Unwrap(amsg)
           r == platform_handle(m)
           took == IsSome(OwnedBy(m)) /\ ~IsSome(OwnedBy(r.msg))
           k1 == IF took THEN into_raw(Kernel("A"), Unwrap(OwnedBy(m))) ELSE Kernel("A")
           k2 == IF r.res = "panic" /\ IsSome(OwnedBy(r.msg))
                 THEN drop(k1, Unwrap(OwnedBy(r.msg))) ELSE k1
       IN  /\ SetKernel("A", k2)
           /\ amsg' = IF r.res = "ok" THEN Some(r.msg) ELSE None
           /\ own' = [op |-> "platform_handle", before |-> Some(m), res |-> r.res, ret |-> r.ret]
           /\ oraw' = IF IsSome(r.ret)
                      THEN oraw \cup {[fd |-> Unwrap(r.ret)[1], obj |-> fds["A"][Unwrap(r.ret)[1]]]}
                      ELSE oraw
    /\ UNCHANGED <<akeep, wire, bmsg, xfer, restOfOwn>>

\* The message is destroyed: a PlatformHandle still inside it is dropped.
OwnDropMessage ==
    /\ IsSome(amsg)
    /\ LET m == Unwrap(amsg) IN
        /\ SetKernel("A", IF IsSome(OwnedBy(m)) THEN drop(Kernel("A"), Unwrap(OwnedBy(m)))
                                                ELSE Kernel("A"))
        /\ own' = [op |-> "drop", before |-> Some(m), res |-> "ok", ret |-> None]
    /\ amsg' = None
    /\ UNCHANGED <<oraw, akeep, wire, bmsg, xfer, restOfOwn>>

\* The caller of platform_handle() closes a raw descriptor it was handed.
OwnCloseRaw(e) ==
    /\ e \in oraw
    /\ SetKernel("A", close_platformhandle(Kernel("A"), e.fd))
    /\ oraw' = oraw \ {e}
    /\ own' = [NoOwn EXCEPT !.op = "close_raw"]
    /\ UNCHANGED <<amsg, akeep, wire, bmsg, xfer, restOfOwn>>

InitOwn ==
    /\ unix = TRUE
    /\ InitState

NextOwn ==
    \/ \E k \in Kinds, r \in ResSet, withTarget \in BOOLEAN : OwnBuild(k[1], k[2], r, withTarget)
    \/ OwnPlatformHandle
    \/ OwnDropMessage
    \/ \E e \in [fd : FdSet, obj : ResSet] : OwnCloseRaw(e)

SpecOwn == InitOwn /\ [][NextOwn]_vars

\* C11: platform_handle() on a carrying message that owns a handle for a target
\* returns that handle's raw value with the target pid and leaves local_handle
\* empty; on a non-carrying variant it returns None and leaves the message as it
\* was; and a raw descriptor handed out stays open, on its object, until its
\* receiver closes it, whatever happens to the message.
C11_OwnershipTransferredOut ==
    /\ (own.op = "platform_handle" /\ IsSome(OwnedBy(Unwrap(own.before)))
                                   /\ IsSome(Unwrap(Unwrap(own.before).rh).target_pid)) =>
          /\ own.res = "ok"
          /\ own.ret = Some(<<Unwrap(OwnedBy(Unwrap(own.before))),
                              Unwrap(Unwrap(Unwrap(own.before).rh).target_pid)>>)
          /\ IsSome(amsg) /\ ~IsSome(OwnedBy(Unwrap(amsg)))
    /\ (own.op = "platform_handle"
          /\ ~Carrying(Unwrap(own.before).ty, Unwrap(own.before).variant)) =>
          /\ own.res = "ok"
          /\ own.ret = None
          /\ amsg = own.before
    /\ \A e \in oraw : e.obj # NoRes /\ fds["A"][e.fd] = e.obj

\* A message was destroyed after platform_handle() took its handle out, and the
\* descriptor handed out is still with its receiver.
C11_Witness ==
    /\ own.op = "drop"
    /\ Carrying(Unwrap(own.before).ty, Unwrap(own.before).variant)
    /\ ~IsSome(OwnedBy(Unwrap(own.before)))
    /\ oraw # {}

\* ------------------------------------------------------ one Data event
\* 64-bit words as eight bytes, least significant first, so that
\* `nframes as usize * frame_size` is computed at the width the program has.
ByteIx == 1 .. 8
WideIx == 1 .. 16

\* SHM_AREA_SIZE, 2 * 1024 * 1024, as a word.
SHM_AREA_SIZE == Word(0, 0, 32)

\* 2^62 and -1isize (as usize, 2^64 - 1).
Pow62 == <<0, 0, 0, 0, 0, 0, 0, 64>>
MinusOne == <<255, 255, 255, 255, 255, 255, 255, 255>>

\* A small natural number as a word.
W(n) == Word(n % 256, (n \div 256) % 256, (n \div 65536) % 256)

\* The column sums of the schoolbook product, and the product's 16 bytes.
RECURSIVE ColSum(_, _, _, _)
ColSum(a, b, k, i) ==
    IF i > 8 THEN 0
    ELSE (IF k - i + 1 \in ByteIx THEN a[i] * b[k - i + 1] ELSE 0) + ColSum(a, b, k, i + 1)

RECURSIVE MulFrom(_, _, _, _)
MulFrom(a, b, k, carry) ==
    IF k > 16 THEN <<>>
    ELSE LET t == ColSum(a, b, k, 1) + carry
         IN  <<t % 256>> \o MulFrom(a, b, k + 1, t \div 256)

\* The exact product of two words, sixteen bytes.
MulWide(a, b) == MulFrom(a, b, 1, 0)

\* usize multiplication without overflow checks: the low eight bytes.
wrapping_mul(a, b) == SubSeq(MulWide(a, b), 1, 8)

\* The product does not fit a usize.
Overflows(a, b) == SubSeq(MulWide(a, b), 9, 16) # <<0, 0, 0, 0, 0, 0, 0, 0>>

\* a <= b, words as unsigned numbers.
RECURSIVE LeqFrom(_, _, _)
LeqFrom(a, b, k) ==
    IF k = 0 THEN TRUE
    ELSE IF a[k] # b[k] THEN a[k] < b[k]
    ELSE LeqFrom(a, b, k - 1)
Leq(a, b) == LeqFrom(a, b, 8)

\* How many of the followed bytes a length covers.
Followed(len) ==
    IF Leq(len, W(MaxBytes)) THEN len[1] ELSE MaxBytes

\* `a * b` as the build computes it: a panic on overflow with overflow checks,
\* the wrapped product without.
checked_mul(a, b, overflowChecks) ==
    LET m == MulWide(a, b)
    IN  IF overflowChecks /\ SubSeq(m, 9, 16) # <<0, 0, 0, 0, 0, 0, 0, 0>>
        THEN [res |-> "panic", v |-> Zero]
        ELSE [res |-> "ok", v |-> SubSeq(m, 1, 8)]

\* SharedMemSlice::get_slice / get_mut_slice(size): an error when size is larger
\* than the mapped region.
get_slice(size) == IF Leq(size, SHM_AREA_SIZE) THEN "ok" ELSE "err"

\* Vec::with_capacity(SHM_AREA_SIZE).capacity().
capacity == SHM_AREA_SIZE

\* The values a Data frame can bring, the byte values followed, and what the
\* user's data callback can return (CUBEB_ERROR is -1).
NFramesSet == {W(0), W(2), W(1024), W(1025), Pow62, MinusOne}
FrameSizes == {W(0), W(1), W(4), W(2048)}
ByteVals == {0, 1}
Contents == [1 .. MaxBytes -> ByteVals]
CbRets == {-1, 0, 1, 2}

\* The working set nframes x frame_size is larger than the shared region.
ExceedsRegion(nframes, frame_size) ==
    LET m == MulWide(nframes, frame_size)
    IN  SubSeq(m, 9, 16) # <<0, 0, 0, 0, 0, 0, 0, 0>> \/ ~Leq(SubSeq(m, 1, 8), SHM_AREA_SIZE)

\* An input pointer that aliases the shared region.
input_view_aliased(copy, shared) == shared

\* What is behind the input pointer the callback is given: the Vec the input
\* was copied to, not the region.
input_view(copy, shared) == copy

\* The reactor-thread part of the Data arm (self.shm is Some): with an input
\* Vec, assert!(input_frame_size > 0) and
\* assert!(buf.capacity() >= nframes as usize * input_frame_size).
data_arm(dr, cfg) ==
    LET inl == checked_mul(dr.nframes, dr.input_frame_size, cfg.overflowChecks)
    IN  IF ~cfg.hasInput THEN "spawned"
        ELSE IF dr.input_frame_size = Zero THEN "panic"
        ELSE IF inl.res = "panic" THEN "panic"
        ELSE IF Leq(inl.v, capacity) THEN "spawned" ELSE "panic"

DataProcess ==
    /\ dpc = "received"
    /\ dpc' = IF data_arm(dreq, dcfg) = "spawned" THEN "spawned" ELSE "panic_reactor"
    /\ UNCHANGED <<dreq, dcfg, pattern, region, inbuf, dcall, dresp, restOfData>>

\* The pool closure up to the call of the user's callback: the input is copied
\* out of the region, the output slice is taken, and cb is called with the
\* input Vec, the region and nframes.
data_closure(dr, cfg) ==
    LET inl == checked_mul(dr.nframes, dr.input_frame_size, cfg.overflowChecks)
        outl == checked_mul(dr.nframes, dr.output_frame_size, cfg.overflowChecks)
    IN  IF cfg.hasInput /\ (inl.res = "panic" \/ get_slice(inl.v) = "err")
        THEN [res |-> "panic", copied |-> Zero, call |-> None]
        ELSE IF dr.output_frame_size # Zero /\ (outl.res = "panic" \/ get_slice(outl.v) = "err")
        THEN [res |-> "panic", copied |-> IF cfg.hasInput THEN inl.v ELSE Zero, call |-> None]
        ELSE [res |-> "ok", copied |-> IF cfg.hasInput THEN inl.v ELSE Zero,
              call |-> Some([nframes |-> dr.nframes,
                             input |-> IF cfg.hasInput THEN "buf" ELSE "null",
                             inLen |-> IF cfg.hasInput THEN inl.v ELSE Zero,
                             output |-> IF dr.output_frame_size # Zero THEN "region" ELSE "null",
                             outLen |-> IF dr.output_frame_size # Zero THEN outl.v ELSE Zero])]

DataClosure ==
    /\ dpc = "spawned"
    /\ LET r == data_closure(dreq, dcfg) IN
        /\ dpc' = IF r.res = "ok" THEN "incallback" ELSE "panic_pool"
        /\ inbuf' = [i \in 1 .. MaxBytes |-> IF i <= Followed(r.copied) THEN region[i] ELSE inbuf[i]]
        /\ dcall' = r.call
    /\ UNCHANGED <<dreq, dcfg, pattern, region, dresp, restOfData>>

\* The user's callback writes a byte of the output buffer it was given.
CallbackWrite(i, b) ==
    /\ dpc = "incallback"
    /\ Unwrap(dcall).output = "region"
    /\ i <= Followed(Unwrap(dcall).outLen)
    /\ region' = [region EXCEPT ![i] = b]
    /\ UNCHANGED <<dreq, dcfg, dpc, pattern, inbuf, dcall, dresp, restOfData>>

\* The user's callback returns n and the closure resolves to
\* Ok(CallbackResp::Data(n as isize)).
CallbackReturn(n) ==
    /\ dpc = "incallback"
    /\ dpc' = "responded"
    /\ dresp' = Some([kind |-> "Data", n |-> n])
    /\ UNCHANGED <<dreq, dcfg, pattern, region, inbuf, dcall, restOfData>>

\* A Data event has arrived for a stream whose shared memory is set up; the
\* peer has written the region; the input Vec holds whatever it held.
InitData ==
    /\ unix = TRUE
    /\ InitKernel /\ InitOps /\ InitCodecVars /\ InitMsgVars /\ InitServerVars
    /\ InitControlVars /\ InitStreamVars /\ InitOwnVars /\ InitPosVars
    /\ InitParamVars /\ InitSetupVars /\ InitDevVars /\ InitGuardVars
    /\ dreq \in [nframes : NFramesSet, input_frame_size : FrameSizes,
                  output_frame_size : FrameSizes]
    /\ dcfg \in [hasInput : BOOLEAN, overflowChecks : BOOLEAN]
    /\ dpc = "received"
    /\ pattern \in Contents
    /\ region = pattern
    /\ inbuf \in Contents
    /\ dcall = None
    /\ dresp = None

NextData ==
    \/ DataProcess
    \/ DataClosure
    \/ \E i \in 1 .. MaxBytes, b \in ByteVals : CallbackWrite(i, b)
    \/ \E n \in CbRets : CallbackReturn(n)

SpecData == InitData /\ [][NextData]_vars

\* The user's data callback has been called.
Invoked == dpc \in {"incallback", "responded"}

\* The bytes the callback finds behind its input pointer.
InputSeen == SubSeq(input_view(inbuf, region), 1, Followed(Unwrap(dcall).inLen))

\* C12: the user's data callback is never called for a Data event whose
\* nframes x input_frame_size (stream with input) or nframes x
\* output_frame_size (non-zero) is larger than the shared region.
C12_OversizedFailsLoudly ==
    Invoked =>
        /\ dcfg.hasInput => ~ExceedsRegion(dreq.nframes, dreq.input_frame_size)
        /\ dreq.output_frame_size # Zero => ~ExceedsRegion(dreq.nframes, dreq.output_frame_size)

\* nframes is an isize on the wire (CallbackReq::Data): its sign bit is the top
\* bit of the most significant byte.
Negative(w) == w[8] >= 128

\* C30: the user's data callback is called only for a Data event whose nframes
\* is non-negative and whose true products nframes x input_frame_size and
\* nframes x output_frame_size, of the sides the stream uses, are at most the
\* size of the shared region: no negative count and no wrapped product gets
\* past the size checks.
C30_ByteRangesDoNotWrap ==
    Invoked =>
        /\ ~Negative(dreq.nframes)
        /\ ~(dcfg.hasInput /\ ExceedsRegion(dreq.nframes, dreq.input_frame_size))
        /\ ~(dreq.output_frame_size # Zero /\ ExceedsRegion(dreq.nframes, dreq.output_frame_size))

\* C13: on a stream with input, for an event whose input fits the region, the
\* callback's input buffer holds the nframes x input_frame_size bytes the peer
\* wrote, before and after the callback writes its output to the region.
C13_SharedMemoryRoundTrip ==
    (Invoked /\ dcfg.hasInput /\ ~ExceedsRegion(dreq.nframes, dreq.input_frame_size)) =>
        /\ Unwrap(dcall).input = "buf"
        /\ Unwrap(dcall).inLen = wrapping_mul(dreq.nframes, dreq.input_frame_size)
        /\ InputSeen = SubSeq(pattern, 1, Followed(Unwrap(dcall).inLen))

\* The callback got input, overwrote the region where the input had been, and
\* returned.
C13_Witness ==
    /\ dpc = "responded"
    /\ dcfg.hasInput
    /\ Followed(Unwrap(dcall).inLen) = MaxBytes
    /\ \A i \in 1 .. MaxBytes : region[i] # pattern[i]

\* ---------------------------------------------------------- position()
\* One thread calls position() again and again on a stream while the clock
\* runs.  The cache path reads the clock twice: last_time.elapsed() in the
\* freshness test and last_time.elapsed() again in the estimate.
Rates == {None, Some(1000), Some(48000)}
ServerPositions == {0, 480}

\* The clock advances, at any point of a call as well as between calls.
Tick ==
    /\ now < MaxTime
    /\ now' = now + 1
    /\ UNCHANGED <<cached_position, rate, ppc, pret, prevRet, cached_calls, pcall, restOfPos>>

\* A freshness test that still accepts a pair exactly 10 ms old.
PositionBeginInclusive ==
    /\ ppc = "idle"
    /\ pcall.n < MaxPosCalls
    /\ ppc' = IF IsSome(cached_position) /\ now - cached_position[1][2] <= CacheLifetimeMs
              THEN "fresh" ELSE "rpc"
    /\ pcall' = [pcall EXCEPT !.n = @ + 1, !.before = cached_position, !.t0 = now,
                              !.sent = (ppc' = "rpc")]
    /\ UNCHANGED <<cached_position, now, rate, pret, prevRet, cached_calls, restOfPos>>

\* position() up to the freshness test: the cache path is taken when
\* last_time.elapsed() < 10 ms, the round trip otherwise.
PositionBegin ==
    /\ ppc = "idle"
    /\ pcall.n < MaxPosCalls
    /\ ppc' = IF IsSome(cached_position) /\ now - cached_position[1][2] < CacheLifetimeMs
              THEN "fresh" ELSE "rpc"
    /\ pcall' = [pcall EXCEPT !.n = @ + 1, !.before = cached_position, !.t0 = now,
                              !.sent = (ppc' = "rpc")]
    /\ UNCHANGED <<cached_position, now, rate, pret, prevRet, cached_calls, restOfPos>>

\* last_pos + elapsed_ms * rate / 1000, with the clock read now.
estimate(last_pos, last_time, t, r) == last_pos + ((t - last_time) * r) \div 1000

\* The cache path: stream_output_rate.unwrap() panics on a stream without
\* output; otherwise the estimate is returned.
PositionCached ==
    /\ ppc = "fresh"
    /\ IF IsSome(rate)
       THEN /\ pret' = [path |-> "cache",
                        val |-> estimate(cached_position[1][1], cached_position[1][2], now,
                                         Unwrap(rate)),
                        base |-> cached_position[1][1], rate |-> Unwrap(rate),
                        prev |-> prevRet]
            /\ prevRet' = Some(pret'.val)
            /\ cached_calls' = <<cached_calls[1] + 1, cached_calls[2] + 1>>
            /\ pcall' = [pcall EXCEPT !.hits = @ + 1, !.prev = pcall.last,
                                      !.last = Some(pret'.val)]
            /\ ppc' = "idle"
       ELSE /\ ppc' = "panicked"
            /\ UNCHANGED <<pret, prevRet, cached_calls, pcall>>
    /\ UNCHANGED <<cached_position, now, rate, restOfPos>>

\* The round trip: the server's StreamPosition is cached with Instant::now()
\* and returned, or the call fails (?) and the cache and the counters are left
\* as they were.  The server's own position never goes backwards.
PositionRoundTrip(ok, p) ==
    /\ ppc = "rpc"
    /\ IF ok
       THEN /\ IsSome(pcall.srv) => p >= Unwrap(pcall.srv)
            /\ cached_position' = Some(<<p, now>>)
            /\ pret' = [path |-> "rpc", val |-> p, base |-> p, rate |-> 0, prev |-> None]
            /\ prevRet' = Some(p)
            /\ cached_calls' = <<cached_calls[1], cached_calls[2] + 1>>
            /\ pcall' = [pcall EXCEPT !.prev = pcall.last, !.last = Some(p), !.srv = Some(p)]
       ELSE /\ pret' = [NoRet EXCEPT !.path = "error"]
            /\ UNCHANGED <<cached_position, prevRet, cached_calls, pcall>>
    /\ ppc' = "idle"
    /\ UNCHANGED <<now, rate, restOfPos>>

InitPos ==
    /\ unix = TRUE
    /\ InitKernel /\ InitOps /\ InitCodecVars /\ InitMsgVars /\ InitServerVars
    /\ InitControlVars /\ InitStreamVars /\ InitOwnVars /\ InitDataVars
    /\ InitParamVars /\ InitSetupVars /\ InitDevVars /\ InitGuardVars
    /\ cached_position = None
    /\ now = 0
    /\ rate \in Rates
    /\ ppc = "idle"
    /\ pret = NoRet
    /\ prevRet = None
    /\ cached_calls = <<0, 0>>
    /\ pcall = NoCall

NextPos ==
    \/ Tick
    \/ PositionBegin
    \/ PositionCached
    \/ \E ok \in BOOLEAN, p \in ServerPositions : PositionRoundTrip(ok, p)

SpecPos == InitPos /\ [][NextPos]_vars

\* C14: a value position() returns from the cache path is at least the value
\* the previous call returned since the round trip that filled the cache, and
\* at most last_position + 10 x R / 1000.
C14_PositionCacheBound ==
    pret.path = "cache" =>
        /\ IsSome(pret.prev) => pret.val >= Unwrap(pret.prev)
        /\ pret.val <= pret.base + (CacheLifetimeMs * pret.rate) \div 1000

\* C22: when no position() call is in progress, cached_calls.1 is the number
\* of position() calls made and cached_calls.0 the number of them answered
\* from the cache.
C22_CallCountersExact ==
    ppc = "idle" =>
        /\ cached_calls[2] = pcall.n
        /\ cached_calls[1] = pcall.hits

\* C23: the latest position() call sent StreamGetPosition exactly when there
\* was no cached pair or the pair was at least 10 ms old at the freshness
\* test; after a successful round trip the cached pair is the returned
\* position with a time not before the call; after a call answered from the
\* cache no request was sent and the pair is the one the call found.
C23_CacheHitAndMiss ==
    pcall.n > 0 =>
        /\ pcall.sent <=>
               (\/ pcall.before = None
                \/ pcall.t0 - Unwrap(pcall.before)[2] >= CacheLifetimeMs)
        /\ (ppc = "idle" /\ pret.path = "rpc") =>
               /\ IsSome(cached_position)
               /\ Unwrap(cached_position)[1] = pret.val
               /\ Unwrap(cached_position)[2] >= pcall.t0
               /\ Unwrap(cached_position)[2] <= now
        /\ (ppc = "idle" /\ pret.path = "cache") =>
               /\ ~pcall.sent
               /\ cached_position = pcall.before

\* A round trip replaced a pair that had grown old, after a call that was
\* answered from the cache.
C23_Witness ==
    /\ ppc = "idle"
    /\ pret.path = "rpc"
    /\ IsSome(pcall.before)
    /\ cached_position # pcall.before
    /\ pcall.hits > 0

\* C26: a successful position() call returns no less than the successful call
\* before it, also when it is a round trip that follows an estimate (the
\* server's own positions never go backwards).
C26_PositionNeverGoesBack ==
    (ppc = "idle" /\ pret.path \in {"rpc", "cache"} /\ IsSome(pcall.prev)) =>
        pret.val >= Unwrap(pcall.prev)

\* C27: a position() call that takes the cache path returns; it does not
\* abort, whichever parameters the stream was created with.
C27_CachePathReturns ==
    ppc # "panicked"

\* ------------------------------------------------ StreamParams conversion
\* StreamParams::from reads the memory behind a StreamParamsRef as a StreamParams:
\* both structs are #[repr(C)] with five 4-byte fields, so a field is the four
\* little-endian bytes at the offset its position in the struct gives it.
Fields == <<"format", "rate", "channels", "layout", "prefs">>

\* ffi::cubeb_stream_params, the struct the bytes were written as.
FfiFields == <<"format", "rate", "channels", "layout", "prefs">>

\* Parameters to convert: the format (S16LE .. FLOAT32BE), the rate, the channel
\* count, the layout (undefined, 3F1_LFE) and the preferences (none, loopback).
RawParams == [format : {0, 1, 2, 3}, rate : {44100, 96000}, channels : {1, 32},
              layout : {0, 271}, prefs : {0, 1}]

le_bytes(v) == <<v % 256, (v \div 256) % 256, (v \div 65536) % 256, (v \div 16777216) % 256>>
from_le_bytes(b) == b[1] + 256 * b[2] + 65536 * b[3] + 16777216 * b[4]

\* The bytes of a struct whose fields are laid out in this order.
store(rec, order) ==
    le_bytes(rec[order[1]]) \o le_bytes(rec[order[2]]) \o le_bytes(rec[order[3]])
        \o le_bytes(rec[order[4]]) \o le_bytes(rec[order[5]])

\* The field at the i-th position of a struct read from these bytes.
field_at(mem, i) == from_le_bytes(SubSeq(mem, 4 * (i - 1) + 1, 4 * i))

\* The struct read from the bytes, its fields taken in this order.
load(mem, order) ==
    [f \in {order[i] : i \in 1 .. 5} |->
        field_at(mem, CHOOSE i \in 1 .. 5 : order[i] = f)]

\* A StreamParams that declares prefs before layout.
stream_params_from_reordered(mem) ==
    load(mem, <<"format", "rate", "channels", "prefs", "layout">>)

\* StreamParams::from: *(x.as_ptr() as *mut StreamParams).
stream_params_from(mem) == load(mem, Fields)

\* The conversion is applied to the wrapped parameters.
ParamsFrom ==
    /\ IsSome(praw)
    /\ pout = None
    /\ pout' = Some(stream_params_from(pmem))
    /\ UNCHANGED <<praw, pmem, restOfParams>>

InitParams ==
    /\ unix = TRUE
    /\ InitKernel /\ InitOps /\ InitCodecVars /\ InitMsgVars /\ InitServerVars
    /\ InitControlVars /\ InitStreamVars /\ InitOwnVars /\ InitDataVars /\ InitPosVars
    /\ InitSetupVars /\ InitDevVars /\ InitGuardVars
    /\ \E raw \in RawParams :
          /\ praw = Some(raw)
          /\ pmem = store(raw, FfiFields)
    /\ pout = None

NextParams == ParamsFrom

SpecParams == InitParams /\ [][NextParams]_vars

\* C19: the StreamParams the conversion returns has the format, rate, channels,
\* layout and prefs of the parameters it was given.
C19_FromPreservesFields ==
    IsSome(pout) =>
        \A i \in 1 .. 5 : Unwrap(pout)[Fields[i]] = Unwrap(praw)[Fields[i]]

\* The parameters of the repository's test were converted: FLOAT32BE, 96 kHz,
\* 32 channels, 3F1_LFE, loopback.
C19_Witness ==
    /\ IsSome(pout)
    /\ Unwrap(praw) = [format |-> 3, rate |-> 96000, channels |-> 32, layout |-> 271,
                       prefs |-> 1]

\* ---------------------------------------------------- stream initialisation
\* ClientStream::init, for MaxStreams streams initialised by a thread each:
\* StreamCreate on the control connection, a closure spawned on the reactor that
\* registers the callback transport, binds the CallbackServer and signals on
\* wait_tx, and StreamInit once wait_rx.recv() has returned.  The reactor runs
\* one closure at a time.
SetupOrder == <<"created", "registered", "bound", "signal_sent", "signal_received", "init_sent">>

Logged(i, what) == ilog' = [ilog EXCEPT ![i] = Append(@, what)]

\* send_recv!(rpc, StreamCreate(..) => StreamCreated()): sent, the thread blocks.
SetupCreateSend(i) ==
    /\ ipc[i] = "start"
    /\ ipc' = [ipc EXCEPT ![i] = "creating"]
    /\ UNCHANGED <<icl, isig, ilog, restOfSetup>>

\* The response arrives: StreamCreated with the callback handle, or an error
\* that init returns (?).
SetupCreateAnswer(i, ok) ==
    /\ ipc[i] = "creating"
    /\ IF ok
       THEN /\ ipc' = [ipc EXCEPT ![i] = "created"]
            /\ Logged(i, "created")
       ELSE /\ ipc' = [ipc EXCEPT ![i] = "failed"]
            /\ UNCHANGED ilog
    /\ UNCHANGED <<icl, isig, restOfSetup>>

\* ctx.handle().spawn(lazy(..)).expect(..): the closure is queued on the
\* reactor and the thread goes on to wait_rx.recv(); spawn fails when the
\* reactor is gone, and expect panics.
SetupSpawn(i, ok) ==
    /\ ipc[i] = "created"
    /\ IF ok
       THEN /\ ipc' = [ipc EXCEPT ![i] = "waiting"]
            /\ icl' = [icl EXCEPT ![i] = "spawned"]
       ELSE /\ ipc' = [ipc EXCEPT ![i] = "panicked"]
            /\ UNCHANGED icl
    /\ UNCHANGED <<isig, ilog, restOfSetup>>

\* The closure starts: stream.into_tokio_ipc(&handle).unwrap().  A failure
\* panics; the closure unwinds and drops wait_tx unsent.
ClosureRegister(i, ok) ==
    /\ icl[i] = "spawned"
    /\ \A j \in StreamIds : icl[j] \notin {"registered", "bound"}
    /\ IF ok
       THEN /\ icl' = [icl EXCEPT ![i] = "registered"]
            /\ Logged(i, "registered")
            /\ UNCHANGED isig
       ELSE /\ icl' = [icl EXCEPT ![i] = "panicked"]
            /\ isig' = [isig EXCEPT ![i] = "dropped"]
            /\ UNCHANGED ilog
    /\ UNCHANGED <<ipc, restOfSetup>>

\* rpc::bind_server(transport, server).
ClosureBind(i) ==
    /\ icl[i] = "registered"
    /\ icl' = [icl EXCEPT ![i] = "bound"]
    /\ Logged(i, "bound")
    /\ UNCHANGED <<ipc, isig, restOfSetup>>

\* wait_tx.send(()).unwrap(): the receiver is alive, its thread is in recv().
ClosureSignal(i) ==
    /\ icl[i] = "bound"
    /\ icl' = [icl EXCEPT ![i] = "done"]
    /\ isig' = [isig EXCEPT ![i] = "sent"]
    /\ Logged(i, "signal_sent")
    /\ UNCHANGED <<ipc, restOfSetup>>

\* An init that goes on without waiting for the signal.
SetupWaitSkipped(i) ==
    /\ ipc[i] = "waiting"
    /\ ipc' = [ipc EXCEPT ![i] = "signalled"]
    /\ isig' = [isig EXCEPT ![i] = "received"]
    /\ Logged(i, "signal_received")
    /\ UNCHANGED <<icl, restOfSetup>>

\* wait_rx.recv().unwrap() returns: with the signal, or with an error when the
\* sender was dropped unsent, and then unwrap panics.
SetupWaitReturn(i) ==
    /\ ipc[i] = "waiting"
    /\ isig[i] \in {"sent", "dropped"}
    /\ IF isig[i] = "sent"
       THEN /\ ipc' = [ipc EXCEPT ![i] = "signalled"]
            /\ isig' = [isig EXCEPT ![i] = "received"]
            /\ Logged(i, "signal_received")
       ELSE /\ ipc' = [ipc EXCEPT ![i] = "panicked"]
            /\ UNCHANGED <<isig, ilog>>
    /\ UNCHANGED <<icl, restOfSetup>>

\* send_recv!(rpc, StreamInit(..) => StreamInitialized): sent.
SetupInitSend(i) ==
    /\ ipc[i] = "signalled"
    /\ ipc' = [ipc EXCEPT ![i] = "initSent"]
    /\ Logged(i, "init_sent")
    /\ UNCHANGED <<icl, isig, restOfSetup>>

\* The response arrives and init returns the stream, or the error (?).
SetupInitAnswer(i, ok) ==
    /\ ipc[i] = "initSent"
    /\ ipc' = [ipc EXCEPT ![i] = IF ok THEN "done" ELSE "failed"]
    /\ UNCHANGED <<icl, isig, ilog, restOfSetup>>

InitSetup ==
    /\ unix = TRUE
    /\ InitState

NextSetup ==
    \E i \in StreamIds :
        \/ SetupCreateSend(i)
        \/ \E ok \in BOOLEAN : SetupCreateAnswer(i, ok)
        \/ \E ok \in BOOLEAN : SetupSpawn(i, ok)
        \/ \E ok \in BOOLEAN : ClosureRegister(i, ok)
        \/ ClosureBind(i)
        \/ ClosureSignal(i)
        \/ SetupWaitReturn(i)
        \/ SetupInitSend(i)
        \/ \E ok \in BOOLEAN : SetupInitAnswer(i, ok)

SpecSetup == InitSetup /\ [][NextSetup]_vars

\* C20: the steps of a stream's initialisation happen in the order StreamCreated
\* received, callback transport registered, CallbackServer bound, signal sent,
\* signal received, StreamInit sent, none skipped; StreamInit is never sent
\* while the callback server is not bound on the reactor.
C20_InitOrdered ==
    \A i \in StreamIds :
        /\ Len(ilog[i]) <= Len(SetupOrder)
        /\ ilog[i] = SubSeq(SetupOrder, 1, Len(ilog[i]))
        /\ ipc[i] \in {"initSent", "done"} => icl[i] \in {"bound", "done"}

\* StreamInit has been sent for a stream, after all the steps before it.
C20_Witness ==
    \E i \in StreamIds :
        /\ ipc[i] = "initSent"
        /\ ilog[i] = SetupOrder

\* C28: when init has returned an error, no stream it created is left alive on
\* the server: a token received with StreamCreated has been released by a
\* StreamDestroy request.
C28_CreatedStreamDestroyed ==
    \A i \in StreamIds :
        ipc[i] = "failed" =>
            ("created" \in Range(ilog[i]) => "destroy_sent" \in Range(ilog[i]))

\* ------------------------------------------------ device-changed callback
\* DeviceChange closures on the pool threads and register_device_changed_callback
\* on a caller thread share device_change_cb, an Arc<Mutex<Option<callback>>>.
\* Callbacks are numbered 1 and 2; 0 is None.
DevCallbacks == {0, 1, 2}

\* process spawns the DeviceChange closure on a pool thread.
DevSpawn(t) ==
    /\ dtask[t].pc = "idle"
    /\ dtask' = [dtask EXCEPT ![t].pc = "spawned"]
    /\ UNCHANGED <<dcb, dlock, dreg, restOfDev>>

\* let cb = cb.lock().unwrap(): the closure takes the mutex when it is free.
DevLock(t) ==
    /\ dtask[t].pc = "spawned"
    /\ dlock = 0
    /\ dlock' = t
    /\ dtask' = [dtask EXCEPT ![t].pc = "locked"]
    /\ UNCHANGED <<dcb, dreg, restOfDev>>

\* A closure that copies the callback out and releases the mutex before it
\* calls it.
DevInvokeUnlocked(t) ==
    /\ dtask[t].pc = "locked"
    /\ dtask' = [dtask EXCEPT ![t] = [pc |-> IF dcb # 0 THEN "calling" ELSE "warned",
                                      cb |-> dcb]]
    /\ dlock' = 0
    /\ UNCHANGED <<dcb, dreg, restOfDev>>

\* if let Some(cb) = *cb { cb(user_ptr) } else { warn!(..) }: the stored
\* callback is called with the guard still held.
DevInvoke(t) ==
    /\ dtask[t].pc = "locked"
    /\ dtask' = [dtask EXCEPT ![t] = [pc |-> IF dcb # 0 THEN "calling" ELSE "warned",
                                      cb |-> dcb]]
    /\ UNCHANGED <<dcb, dlock, dreg, restOfDev>>

\* The callback returns (or there was none): the guard is dropped at the end of
\* run_in_callback's closure and the closure resolves to CallbackResp::DeviceChange.
DevReturn(t) ==
    /\ dtask[t].pc \in {"calling", "warned"}
    /\ dtask' = [dtask EXCEPT ![t] = [pc |-> "answered", cb |-> 0]]
    /\ dlock' = IF dlock = t THEN 0 ELSE dlock
    /\ UNCHANGED <<dcb, dreg, restOfDev>>

\* The response is written; the thread is free for the next DeviceChange.
DevNext(t) ==
    /\ dtask[t].pc = "answered"
    /\ dtask' = [dtask EXCEPT ![t] = NoDev]
    /\ UNCHANGED <<dcb, dlock, dreg, restOfDev>>

\* register_device_changed_callback(c) is called on the caller thread.
DevRegister(c) ==
    /\ dreg.pc = "idle"
    /\ dreg' = [pc |-> "registering", cb |-> c]
    /\ UNCHANGED <<dcb, dlock, dtask, restOfDev>>

\* *self.device_change_cb.lock().unwrap() = c: the thread takes the mutex when
\* it is free, stores the callback and drops the guard at the end of the
\* statement; send_recv!(rpc, StreamRegisterDeviceChangeCallback(..)) follows.
DevStore ==
    /\ dreg.pc = "registering"
    /\ dlock = 0
    /\ dcb' = dreg.cb
    /\ dreg' = [dreg EXCEPT !.pc = "sent"]
    /\ UNCHANGED <<dlock, dtask, restOfDev>>

\* The server's response arrives and the call returns.
DevRegistered ==
    /\ dreg.pc = "sent"
    /\ dreg' = NoDev
    /\ UNCHANGED <<dcb, dlock, dtask, restOfDev>>

InitDev ==
    /\ unix = TRUE
    /\ InitState

NextDev ==
    \/ \E t \in PoolThreads : DevSpawn(t)
    \/ \E t \in PoolThreads : DevLock(t)
    \/ \E t \in PoolThreads : DevInvoke(t)
    \/ \E t \in PoolThreads : DevReturn(t)
    \/ \E t \in PoolThreads : DevNext(t)
    \/ \E c \in DevCallbacks : DevRegister(c)
    \/ DevStore
    \/ DevRegistered

SpecDev == InitDev /\ [][NextDev]_vars

\* C24: a device-changed callback that is being invoked is the one stored in
\* device_change_cb: none is invoked when None is stored, and none that
\* register_device_changed_callback has replaced is running; at most one closure
\* is between reading the stored callback and the end of its invocation.
C24_DeviceCallbackExclusive ==
    /\ \A t \in PoolThreads :
          /\ dtask[t].pc = "calling" => (dtask[t].cb = dcb /\ dcb # 0)
          /\ dtask[t].pc = "warned" => dcb = 0
    /\ \A t, u \in PoolThreads :
          (dtask[t].pc \in {"locked", "calling", "warned"}
              /\ dtask[u].pc \in {"locked", "calling", "warned"}) => t = u

\* A callback registered in place of another one is being invoked while a
\* second DeviceChange closure waits for the mutex.
C24_Witness ==
    \E t, u \in PoolThreads :
        /\ dtask[t].pc = "calling"
        /\ dtask[t].cb = 2
        /\ dtask[u].pc = "spawned"

\* ------------------------------------------------- calls from a callback
\* One thread and one stream: the thread is a pool thread while it runs a user
\* callback (run_in_callback sets its in-callback flag for the duration) and
\* may call the facade from there, or it is a caller thread outside any
\* callback.  Every operation below sends a control request.
ControlOps == {"init", "start", "stop", "position", "latency", "input_latency", "set_volume",
               "set_name", "current_device", "register_device_changed_callback", "drop"}

\* The operations that begin with assert_not_in_callback(): all of StreamOps
\* and init; Drop for ClientStream does not.
asserts_not_in_callback(op) == op # "drop"

\* A facade operation is called: assert_not_in_callback() panics when the flag
\* is set; otherwise the request is sent.  After drop the stream is gone.
GuardCall(op) ==
    /\ gpc \in {"idle", "callback"}
    /\ IF asserts_not_in_callback(op) /\ gflag
       THEN /\ gpc' = "panicked"
            /\ UNCHANGED gsent
       ELSE /\ gsent' = gsent \cup {[op |-> op, in_callback |-> gflag]}
            /\ gpc' = IF op = "drop" THEN "dropped" ELSE gpc
    /\ UNCHANGED <<gflag, restOfGuard>>

\* run_in_callback(f): the flag is set and the user's callback starts.
GuardEnter ==
    /\ gpc = "idle"
    /\ gpc' = "callback"
    /\ gflag' = TRUE
    /\ UNCHANGED <<gsent, restOfGuard>>

\* The user's callback returns and run_in_callback clears the flag.
GuardLeave ==
    /\ gpc = "callback"
    /\ gpc' = "idle"
    /\ gflag' = FALSE
    /\ UNCHANGED <<gsent, restOfGuard>>

InitGuard ==
    /\ unix = TRUE
    /\ InitState

NextGuard ==
    \/ \E op \in ControlOps : GuardCall(op)
    \/ GuardEnter
    \/ GuardLeave

SpecGuard == InitGuard /\ [][NextGuard]_vars

\* C29: no control request was sent by a thread while it was running a user
\* callback.
C29_NoRequestFromCallback ==
    \A r \in gsent : ~r.in_callback

====
